---- MODULE Spec2Model ----
(***************************************************************************)
(* Verification model of youtube-subtitle-downloader's download            *)
(* orchestration layer:                                                    *)
(*   - lib/queue.js  processQueue  (bounded-concurrency task queue)        *)
(*   - lib/retry.js  withRetry     (exponential-backoff retry wrapper)     *)
(*   - utils/errors.js isRetryableError (error classifier)                 *)
(*   - index.js      option parsing of --retries                           *)
(* Each component has its own specification (SpecQueue, SpecRetry) over    *)
(* one set of variables; the variables of the component that is not        *)
(* running keep their idle values.                                         *)
(***************************************************************************)
EXTENDS Integers, Sequences, FiniteSets, TLC

\* ------------------------------------------------------------------ bounds
\* largest items.length explored by SpecQueue
MaxItems == 4
\* largest concurrency handed to processQueue (0 stands for every value pLimit refuses)
MaxConcurrency == 4
\* longest --retries argument explored by SpecRetry
MaxArgLen == 2
\* largest maxRetries explored by SpecRetry
MaxRetriesExplored == 5

\* ------------------------------------------------------- config/constants.js
DEFAULT_MAX_RETRIES == 3
RETRY_BASE_DELAY == 1000
RETRY_MAX_DELAY == 30000
RETRY_BACKOFF_FACTOR == 2

VARIABLES
  \* ---- processQueue(items, processFn, concurrency)
  nItems,        \* items.length; items are identified by their index 0..nItems-1
  concurrency,   \* the concurrency argument
  pcQ,           \* processQueue's position
  queue,         \* p-limit's queue of run functions not yet started (item indexes)
  activeCount,   \* p-limit's activeCount
  pendingChecks, \* p-limit's scheduled "start if a slot is free" microtasks
  status,        \* per item: "new" | "queued" | "running" | "settled" | "done"
  promise,       \* per item: state of the promise limit(...) returned
  outcome,       \* instrumentation: per item, how processFn settled ("none" before)
  started,       \* instrumentation: indexes in the order processFn was invoked
  succeeded,     \* results.succeeded (entries in push order)
  failed,        \* results.failed (entries in push order)
  returned,      \* what the caller of processQueue has received so far
  \* ---- withRetry(fn, options)
  options,       \* the options argument: maxRetries, baseDelay, maxDelay, backoffFactor
  pcR,           \* withRetry's position
  attempt,       \* let attempt
  lastError,     \* let lastError
  calls,         \* instrumentation: number of fn() invocations so far
  outcomes,      \* instrumentation: how each fn() invocation settled, in order
  sleeps,        \* instrumentation: the delays given to sleep(), in order
  retryResult,   \* how the promise withRetry returned has settled
  \* ---- isRetryableError(error)
  clsError,      \* the error handed to isRetryableError
  clsResult,     \* "unclassified", then what isRetryableError returned
  \* ---- downloadSubtitles(videos, options) and the download action around it
  runPc,         \* where downloadSubtitles and its caller stand
  worker,        \* per video: the worker's withRetry call and its attempts
  progress,      \* the ProgressTracker of the run
  trackerCalls,  \* per video: calls of startVideo / succeedVideo / failVideo so far
  stats,         \* the StatsCollector of the run
  runResult,     \* what downloadSubtitles returned
  exitCode,      \* the code handed to process.exit, -1 before
  \* ---- single objects and pure functions called on their own
  callArgs,      \* the arguments of the call under study
  callResult,    \* what the call returned
  trackerBefore, \* the last ProgressTracker call and the tracker state before it
  failureLog,    \* the recordFailure calls made on the StatsCollector, in call order
  fileSystem     \* the output paths that exist on disk

queueVars == <<nItems, concurrency, pcQ, queue, activeCount, pendingChecks,
               status, promise, outcome, started, succeeded, failed, returned>>

retryVars == <<options, pcR, attempt, lastError, calls, outcomes, sleeps, retryResult>>

classifyVars == <<clsError, clsResult>>

runVars == <<runPc, worker, progress, trackerCalls, stats, runResult,
             exitCode>>

auxVars == <<callArgs, callResult, trackerBefore, failureLog, fileSystem>>

vars == <<queueVars, retryVars, classifyVars, runVars, auxVars>>

\* what each component leaves alone
otherThanQueue == <<retryVars, classifyVars, runVars, auxVars>>
otherThanRetry == <<queueVars, classifyVars, runVars, auxVars>>
otherThanClassify == <<queueVars, retryVars, runVars, auxVars>>

\* ------------------------------------------------------------ JS values
\* a JavaScript number, NaN or undefined, as the options carry them
Undefined == [t |-> "undefined", v |-> 0]
NaN == [t |-> "nan", v |-> 0]
Num(n) == [t |-> "num", v |-> n]

\* a <= b and a > b on JS values: every comparison with NaN or undefined is false
JsLeq(a, b) == a.t = "num" /\ b.t = "num" /\ a.v <= b.v
JsGt(a, b) == a.t = "num" /\ b.t = "num" /\ a.v > b.v

\* an Error / DownloadError value; raisedBy tells which fn() invocation threw it
NoError == [type |-> "undefined", message |-> <<>>, isRetryable |-> "absent", raisedBy |-> 0]
PlainError(msg) ==
  [type |-> "Error", message |-> msg, isRetryable |-> "absent", raisedBy |-> 0]
DownloadError(msg, flag) ==
  [type |-> "DownloadError", message |-> msg,
   isRetryable |-> IF flag THEN "true" ELSE "false", raisedBy |-> 0]

\* the values of the component that is not running
IdleQueue ==
  /\ nItems = 0 /\ concurrency = 0 /\ pcQ = "idle" /\ queue = <<>>
  /\ activeCount = 0 /\ pendingChecks = 0 /\ status = <<>> /\ promise = <<>>
  /\ outcome = <<>> /\ started = <<>> /\ succeeded = <<>> /\ failed = <<>>
  /\ returned = [received |-> FALSE]

IdleRetry ==
  /\ options = <<>> /\ pcR = "idle" /\ attempt = 0 /\ lastError = NoError
  /\ calls = 0 /\ outcomes = <<>> /\ sleeps = <<>> /\ retryResult = [state |-> "idle"]

IdleClassify == clsError = NoError /\ clsResult = "idle"

IdleRun ==
  /\ runPc = "idle" /\ worker = <<>> /\ progress = <<>>
  /\ trackerCalls = <<>> /\ stats = <<>> /\ runResult = [received |-> FALSE]
  /\ exitCode = -1

NoCall == [op |-> "none"]

IdleAux ==
  /\ callArgs = <<>> /\ callResult = [state |-> "idle"] /\ trackerBefore = NoCall
  /\ failureLog = <<>> /\ fileSystem = {}

\* ------------------------------------------------------------- processQueue
ItemIndexes == 0 .. (nItems - 1)

NoResult == [received |-> FALSE]

\* a limiter that takes whatever it is given
AnyConcurrency(c) == TRUE

\* pLimit(concurrency) accepts an integer (or Infinity) from 1 up, and throws otherwise
ValidConcurrency(c) == c >= 1

\* no limiter at all (Promise.all over items.map(processFn)): every item may start
limitItemCount == nItems

\* const limit = pLimit(concurrency): the ceiling the limiter enforces
limitConcurrency == concurrency

\* number of processFn invocations started and not yet settled
InFlight == Cardinality({i \in ItemIndexes : status[i] = "running"})

Indexes(bucket) == {bucket[k].index : k \in 1 .. Len(bucket)}

InitQueue ==
  /\ nItems \in 0 .. MaxItems
  /\ concurrency \in 0 .. MaxConcurrency
  /\ pcQ = "start"
  /\ queue = <<>>
  /\ activeCount = 0
  /\ pendingChecks = 0
  /\ status = [i \in 0 .. (nItems - 1) |-> "new"]
  /\ promise = [i \in 0 .. (nItems - 1) |-> "none"]
  /\ outcome = [i \in 0 .. (nItems - 1) |-> "none"]
  /\ started = <<>>
  /\ succeeded = <<>>
  /\ failed = <<>>
  /\ returned = NoResult
  /\ IdleRetry
  /\ IdleClassify
  /\ IdleRun
  /\ IdleAux

\* p-limit's run(): activeCount++, then the limited function is called, which
\* calls processFn(item, index) up to its first suspension
RunItem(i, q, ac) ==
  /\ queue' = q
  /\ activeCount' = ac + 1
  /\ status' = [status EXCEPT ![i] = "running"]
  /\ started' = Append(started, i)

\* p-limit's queue.dequeue(): the oldest queued run function is handed out
Dequeued(q) == Head(q)
Remaining(q) == Tail(q)

\* the items mapped last to first
EnqueueReversed == [k \in 1 .. nItems |-> nItems - k]

\* line 26: items.map((item, index) => limit(...)) calls limit in input order
EnqueueOrder == [k \in 1 .. nItems |-> k - 1]

\* lines 17-23: create the limiter (throws on a bad concurrency, which rejects the
\* async function), create the buckets, first debug log
CreateLimit ==
  /\ pcQ = "start"
  /\ pcQ' = IF ValidConcurrency(concurrency) THEN "log" ELSE "rejected"
  /\ UNCHANGED <<nItems, concurrency, queue, activeCount, pendingChecks, status,
                 promise, outcome, started, succeeded, failed, returned>>
  /\ UNCHANGED otherThanQueue

\* lines 26-45: items.map(... limit(...)): every item is enqueued synchronously, in
\* input order, and p-limit schedules one start check per enqueue
MapItems ==
  /\ pcQ = "log"
  /\ pcQ' = "awaiting"
  /\ queue' = EnqueueOrder
  /\ pendingChecks' = nItems
  /\ status' = [i \in ItemIndexes |-> "queued"]
  /\ promise' = [i \in ItemIndexes |-> "pending"]
  /\ UNCHANGED <<nItems, concurrency, activeCount, outcome, started, succeeded,
                 failed, returned>>
  /\ UNCHANGED otherThanQueue

\* p-limit: the check scheduled by enqueue: if (activeCount < concurrency &&
\* queue.size > 0) queue.dequeue()()
StartCheckStep ==
  /\ pendingChecks > 0
  /\ pendingChecks' = pendingChecks - 1
  /\ IF activeCount < limitConcurrency /\ Len(queue) > 0
       THEN RunItem(Dequeued(queue), Remaining(queue), activeCount)
       ELSE UNCHANGED <<queue, activeCount, status, started>>
  /\ UNCHANGED <<nItems, concurrency, pcQ, promise, outcome, succeeded, failed,
                 returned>>

StartCheck == StartCheckStep /\ UNCHANGED otherThanQueue

\* a succeeded bucket kept in input order
OnWorkerResolvedInInputOrder(i) ==
  /\ succeeded' =
       LET done == Indexes(succeeded) \cup {i}
       IN [k \in 1 .. Cardinality(done) |->
             [index |-> CHOOSE x \in done : Cardinality({y \in done : y < x}) = k - 1]]
  /\ promise' = [promise EXCEPT ![i] = "fulfilled"]
  /\ UNCHANGED failed

\* lines 29-35: processFn resolved: push to succeeded, the limited promise fulfils
OnWorkerResolved(i) ==
  /\ succeeded' = Append(succeeded, [index |-> i])
  /\ promise' = [promise EXCEPT ![i] = "fulfilled"]
  /\ UNCHANGED failed

\* a wrapper without the catch block: the rejection escapes to Promise.all
RethrowWorkerRejection(i) ==
  /\ promise' = [promise EXCEPT ![i] = "rejected"]
  /\ UNCHANGED <<succeeded, failed>>

\* a catch block that swallows the error without recording it
DropWorkerRejection(i) ==
  /\ promise' = [promise EXCEPT ![i] = "fulfilled"]
  /\ UNCHANGED <<succeeded, failed>>

\* lines 36-43: processFn rejected (or threw): push to failed, the limited promise
\* still fulfils (with {success: false, ...})
OnWorkerRejected(i) ==
  /\ failed' = Append(failed, [index |-> i])
  /\ promise' = [promise EXCEPT ![i] = "fulfilled"]
  /\ UNCHANGED succeeded

\* processFn(item, index) settles, either way
WorkerResolvesStep(i) ==
  /\ status[i] = "running"
  /\ status' = [status EXCEPT ![i] = "settled"]
  /\ outcome' = [outcome EXCEPT ![i] = "resolved"]
  /\ OnWorkerResolved(i)
  /\ UNCHANGED <<nItems, concurrency, pcQ, queue, activeCount, pendingChecks,
                 started, returned>>

WorkerResolves(i) == WorkerResolvesStep(i) /\ UNCHANGED otherThanQueue

WorkerRejectsStep(i) ==
  /\ status[i] = "running"
  /\ status' = [status EXCEPT ![i] = "settled"]
  /\ outcome' = [outcome EXCEPT ![i] = "rejected"]
  /\ OnWorkerRejected(i)
  /\ UNCHANGED <<nItems, concurrency, pcQ, queue, activeCount, pendingChecks,
                 started, returned>>

WorkerRejects(i) == WorkerRejectsStep(i) /\ UNCHANGED otherThanQueue

\* p-limit's next(), run after the limited function settled: activeCount--, and the
\* next queued run function, if any, is started
ReleaseSlotStep(i) ==
  /\ status[i] = "settled"
  /\ IF Len(queue) > 0
       THEN /\ queue' = Remaining(queue)
            /\ activeCount' = activeCount
            /\ status' = [status EXCEPT ![i] = "done", ![Dequeued(queue)] = "running"]
            /\ started' = Append(started, Dequeued(queue))
       ELSE /\ activeCount' = activeCount - 1
            /\ status' = [status EXCEPT ![i] = "done"]
            /\ UNCHANGED <<queue, started>>
  /\ UNCHANGED <<nItems, concurrency, pcQ, pendingChecks, promise, outcome,
                 succeeded, failed, returned>>

ReleaseSlot(i) == ReleaseSlotStep(i) /\ UNCHANGED otherThanQueue

\* Promise.all(promises) settles: fulfilled once every promise is, rejected as soon
\* as one is
AllFulfilled == \A i \in ItemIndexes : promise[i] = "fulfilled"
AnyFulfilled == nItems = 0 \/ \E i \in ItemIndexes : promise[i] = "fulfilled"
AnyRejected == \E i \in ItemIndexes : promise[i] = "rejected"

\* line 48: what await Promise.all(promises) waits for
AwaitedAll == AllFulfilled

PromiseAllSettles ==
  /\ pcQ = "awaiting"
  /\ AwaitedAll \/ AnyRejected
  /\ pcQ' = IF AnyRejected THEN "rejected" ELSE "logdone"
  /\ UNCHANGED <<nItems, concurrency, queue, activeCount, pendingChecks, status,
                 promise, outcome, started, succeeded, failed, returned>>
  /\ UNCHANGED otherThanQueue

\* lines 50-52: second debug log, then return results
ReturnResults ==
  /\ pcQ = "logdone"
  /\ pcQ' = "returned"
  /\ returned' = [received |-> TRUE, succeeded |-> succeeded, failed |-> failed]
  /\ UNCHANGED <<nItems, concurrency, queue, activeCount, pendingChecks, status,
                 promise, outcome, started, succeeded, failed>>
  /\ UNCHANGED otherThanQueue

NextQueue ==
  \/ CreateLimit
  \/ MapItems
  \/ StartCheck
  \/ \E i \in ItemIndexes : WorkerResolves(i)
  \/ \E i \in ItemIndexes : WorkerRejects(i)
  \/ \E i \in ItemIndexes : ReleaseSlot(i)
  \/ PromiseAllSettles
  \/ ReturnResults

SpecQueue == InitQueue /\ [][NextQueue]_vars

\* ---------------------------------------------------- claims on processQueue

\* C1: when processQueue returns, succeeded.length + failed.length equals
\* items.length, whatever mix of workers resolved or rejected.
C1_Completeness ==
  returned.received =>
    Len(returned.succeeded) + Len(returned.failed) = nItems

\* a run that returned with both buckets non-empty
C1_Witness ==
  /\ returned.received
  /\ Len(returned.succeeded) >= 1
  /\ Len(returned.failed) >= 1

\* C2: at every moment the number of processFn invocations started and not yet
\* settled is at most the concurrency argument.
C2_AtMostConcurrencyInFlight == InFlight <= concurrency

\* the ceiling is reached while items are still waiting in the queue
C2_Witness ==
  /\ concurrency >= 2
  /\ InFlight = concurrency
  /\ Len(queue) > 0

\* C3: items are admitted in submission order: the k-th processFn invocation
\* started is the one for input index k-1, so a freed slot always goes to the
\* pending item with the smallest index, whatever order workers complete in.
C3_FifoAdmission ==
  /\ \A k \in 1 .. Len(started) : started[k] = k - 1
  /\ \A i \in ItemIndexes : \A j \in ItemIndexes :
       (i < j /\ status[j] \in {"running", "settled", "done"})
         => status[i] \in {"running", "settled", "done"}

\* item 1 completed before item 0, and the freed slot went to item 2
C3_Witness ==
  /\ nItems >= 3
  /\ concurrency = 2
  /\ status[0] = "running"
  /\ status[1] = "done"
  /\ status[2] = "running"

\* C4: a rejecting worker is recorded in failed for its own item only; the
\* promise of its limited call still fulfils, processQueue does not reject, and
\* the run cannot stop before it returned with every item recorded in the bucket
\* that matches how its worker settled.
C4_FailureIsolation ==
  ValidConcurrency(concurrency) =>
    /\ pcQ # "rejected"
    /\ \A i \in ItemIndexes :
         /\ promise[i] # "rejected"
         /\ outcome[i] = "rejected" =>
              (i \in Indexes(failed) /\ i \notin Indexes(succeeded))
         /\ outcome[i] = "resolved" =>
              (i \in Indexes(succeeded) /\ i \notin Indexes(failed))
    /\ (~ ENABLED NextQueue) =>
         (pcQ = "returned" /\ \A i \in ItemIndexes : outcome[i] # "none")

\* with one slot, item 0 failed first and the last item still ran and succeeded
C4_Witness ==
  /\ returned.received
  /\ concurrency = 1
  /\ nItems >= 2
  /\ 0 \in Indexes(returned.failed)
  /\ (nItems - 1) \in Indexes(returned.succeeded)

\* C5: the caller has a result object only when every item has reached its
\* terminal outcome: no item is pending or in flight and every index is in one of
\* the returned buckets.
C5_ReturnsAfterAllSettled ==
  returned.received =>
    /\ Len(queue) = 0
    /\ \A i \in ItemIndexes :
         /\ status[i] \in {"settled", "done"}
         /\ i \in (Indexes(returned.succeeded) \cup Indexes(returned.failed))

\* a run of several items, not all admitted at once, has returned
C5_Witness ==
  /\ returned.received
  /\ nItems >= 2
  /\ concurrency < nItems

\* ----------------------------------------------------------- isRetryableError
\* An error message is a sequence of words. A regular expression such as
\* /video.*private/i is the sequence of its literal fragments, which must occur in
\* the message in that order; Fragments gives the fragments a word contains and
\* OrderedIn the fragment pairs that occur in order inside one word.

\* the /i flag: matching is done on the lower-cased word
LowerCase(w) ==
  CASE w = "Video" -> "video"
    [] w = "No subtitles" -> "no subtitles"
    [] w = "ETIMEDOUT" -> "etimedout"
    [] w = "ENOTFOUND" -> "enotfound"
    [] w = "ECONNRESET" -> "econnreset"
    [] w = "Private" -> "private"
    [] OTHER -> w

FragmentsOfLower(w) ==
  CASE w = "video" -> {"video"}
    [] w = "not available" -> {"no", "not", "available", "not available"}
    [] w = "private" -> {"private"}
    [] w = "deleted" -> {"deleted"}
    [] w = "removed" -> {"removed"}
    [] w = "invalid" -> {"invalid"}
    [] w = "url" -> {"url"}
    [] w = "404" -> {"404"}
    [] w = "no subtitles" -> {"no", "subtitle"}
    [] w = "subtitle" -> {"subtitle"}
    [] w = "permission denied" -> {"permission denied"}
    [] w = "access denied" -> {"access denied"}
    [] w = "network" -> {"network"}
    [] w = "timeout" -> {"timeout"}
    [] w = "econnreset" -> {"econnreset"}
    [] w = "etimedout" -> {"etimedout"}
    [] w = "enotfound" -> {"enotfound", "no", "not"}
    [] w = "rate" -> {"rate"}
    [] w = "limit" -> {"limit"}
    [] w = "too many requests" -> {"too many requests"}
    [] w = "503" -> {"503"}
    [] w = "502" -> {"502"}
    [] w = "available" -> {"available"}
    [] w = "unavailable" -> {"available"}
    [] OTHER -> {}

OrderedInLower(w) ==
  CASE w = "not available" -> {<<"no", "available">>, <<"not", "available">>}
    [] w = "no subtitles" -> {<<"no", "subtitle">>}
    [] OTHER -> {}

Fragments(w) == FragmentsOfLower(LowerCase(w))
OrderedIn(w) == OrderedInLower(LowerCase(w))

\* pattern.test(errorMessage)
PatternTest(pattern, msg) ==
  \E pos \in [1 .. Len(pattern) -> 1 .. Len(msg)] :
    /\ \A k \in 1 .. Len(pattern) : pattern[k] \in Fragments(msg[pos[k]])
    /\ \A k \in 1 .. (Len(pattern) - 1) :
         \/ pos[k] < pos[k + 1]
         \/ /\ pos[k] = pos[k + 1]
            /\ <<pattern[k], pattern[k + 1]>> \in OrderedIn(msg[pos[k]])

nonRetryablePatterns ==
  { <<"video", "not available">>, <<"video", "private">>, <<"video", "deleted">>,
    <<"video", "removed">>, <<"invalid", "url">>, <<"404">>, <<"no", "subtitle">>,
    <<"subtitle", "not", "available">>, <<"permission denied">>, <<"access denied">> }

retryablePatterns ==
  { <<"network">>, <<"timeout">>, <<"econnreset">>, <<"etimedout">>, <<"enotfound">>,
    <<"rate", "limit">>, <<"too many requests">>, <<"503">>, <<"502">> }

MatchesNonRetryable(msg) == \E pattern \in nonRetryablePatterns : PatternTest(pattern, msg)
MatchesRetryable(msg) == \E pattern \in retryablePatterns : PatternTest(pattern, msg)

\* variant: the retryable patterns are consulted before a DownloadError's flag
RetryablePatternsBeforeFlag(error) ==
  IF MatchesNonRetryable(error.message)
    THEN FALSE
    ELSE IF MatchesRetryable(error.message)
      THEN TRUE
      ELSE error.type = "DownloadError" /\ error.isRetryable = "true"

\* variant: a DownloadError's flag is consulted before any pattern
FlagBeforePatterns(error) ==
  IF error.type = "DownloadError"
    THEN error.isRetryable = "true"
    ELSE /\ ~ MatchesNonRetryable(error.message)
         /\ MatchesRetryable(error.message)

\* variant: the retryable patterns are consulted before the non-retryable ones
RetryablePatternsFirst(error) ==
  IF error.type # "DownloadError" /\ MatchesRetryable(error.message)
    THEN TRUE
    ELSE IF MatchesNonRetryable(error.message)
      THEN FALSE
      ELSE error.type = "DownloadError" /\ error.isRetryable = "true"

\* isRetryableError(error): non-retryable patterns first, then a DownloadError's own
\* flag, then the retryable patterns
IsRetryableError(error) ==
  IF \E pattern \in nonRetryablePatterns : PatternTest(pattern, error.message)
    THEN FALSE
    ELSE IF error.type = "DownloadError"
      THEN error.isRetryable = "true"
      ELSE \E pattern \in retryablePatterns : PatternTest(pattern, error.message)

\* ---- isRetryableError applied to one error
\* the words error messages are made of, and the longest message explored
MaxMsgWords == 2
MsgWords ==
  { "Video", "private", "not available", "404", "subtitle", "network", "ETIMEDOUT",
    "rate", "limit", "502", "boom" }

RECURSIVE MessagesOfLen(_)
MessagesOfLen(n) ==
  IF n = 0 THEN { <<>> }
  ELSE { Append(m, w) : m \in MessagesOfLen(n - 1), w \in MsgWords }

Messages == UNION { MessagesOfLen(n) : n \in 0 .. MaxMsgWords }

ClassifiedErrors ==
  { PlainError(m) : m \in Messages }
    \cup { DownloadError(m, flag) : m \in Messages, flag \in BOOLEAN }

InitClassify ==
  /\ IdleQueue
  /\ IdleRetry
  /\ IdleRun
  /\ IdleAux
  /\ clsError \in ClassifiedErrors
  /\ clsResult = "unclassified"

\* const r = isRetryableError(error)
Classify ==
  /\ clsResult = "unclassified"
  /\ clsResult' = IF IsRetryableError(clsError) THEN "true" ELSE "false"
  /\ UNCHANGED clsError
  /\ UNCHANGED otherThanClassify

NextClassify == Classify

SpecClassify == InitClassify /\ [][NextClassify]_vars

Classified == clsResult \in {"true", "false"}

\* C11: a DownloadError whose isRetryable flag is false is classified non-retryable
\* whatever its message is, messages matching a retryable pattern included.
C11_ExplicitFalseNeverRetried ==
  (Classified /\ clsError.type = "DownloadError" /\ clsError.isRetryable = "false")
    => clsResult = "false"

\* a flagged-false error whose message matches only a retryable pattern was classified
C11_Witness ==
  /\ Classified
  /\ clsError = DownloadError(<<"network">>, FALSE)
  /\ clsResult = "false"

\* C12 as stated: for every DownloadError the classification equals the flag, also
\* when pattern matching on the message would say otherwise.
C12_FlagAlwaysDecides ==
  (Classified /\ clsError.type = "DownloadError")
    => clsResult = clsError.isRetryable

\* C12 amended: a false flag always decides; a true flag decides unless the message
\* matches a non-retryable pattern, in which case the error is non-retryable. The
\* retryable patterns never override the flag.
C12_FlagDecidesUnlessNonRetryablePattern ==
  (Classified /\ clsError.type = "DownloadError")
    => clsResult = IF MatchesNonRetryable(clsError.message)
                     THEN "false"
                     ELSE clsError.isRetryable

\* a flagged-true error whose message matches a non-retryable pattern was classified
C12_Witness ==
  /\ Classified
  /\ clsError = DownloadError(<<"network", "404">>, TRUE)
  /\ clsResult = "false"

\* C13: for an error with no flag, a message matching a non-retryable pattern gives
\* false even if it also matches a retryable one, a message matching only a
\* retryable pattern gives true, and a message matching no pattern gives false.
C13_UnflaggedByPatterns ==
  (Classified /\ clsError.type = "Error") =>
    /\ MatchesNonRetryable(clsError.message) => clsResult = "false"
    /\ (MatchesRetryable(clsError.message) /\ ~ MatchesNonRetryable(clsError.message))
         => clsResult = "true"
    /\ (~ MatchesRetryable(clsError.message) /\ ~ MatchesNonRetryable(clsError.message))
         => clsResult = "false"
    /\ clsError.message = <<"network", "404">> => clsResult = "false"
    /\ clsError.message = <<"502">> => clsResult = "true"
    /\ clsError.message = <<"boom">> => clsResult = "false"

\* an unflagged error matching both kinds of pattern was classified
C13_Witness ==
  /\ Classified
  /\ clsError = PlainError(<<"ETIMEDOUT", "404">>)
  /\ MatchesRetryable(clsError.message)
  /\ MatchesNonRetryable(clsError.message)
  /\ clsResult = "false"

\* -------------------------------------------- index.js: parseInt(options.retries, 10)
Digits == {"0", "1", "2", "3", "4", "5", "6", "7", "8", "9"}
ArgChars == Digits \cup {"-", "x", " "}

DigitValue(c) ==
  CASE c = "0" -> 0 [] c = "1" -> 1 [] c = "2" -> 2 [] c = "3" -> 3 [] c = "4" -> 4
    [] c = "5" -> 5 [] c = "6" -> 6 [] c = "7" -> 7 [] c = "8" -> 8 [] c = "9" -> 9

RECURSIVE DropSpaces(_)
DropSpaces(s) == IF s # <<>> /\ Head(s) = " " THEN DropSpaces(Tail(s)) ELSE s

RECURSIVE DigitsPrefix(_)
DigitsPrefix(s) ==
  IF s # <<>> /\ Head(s) \in Digits THEN <<Head(s)>> \o DigitsPrefix(Tail(s)) ELSE <<>>

RECURSIVE DigitsValue(_)
DigitsValue(d) ==
  IF d = <<>> THEN 0
  ELSE DigitsValue(SubSeq(d, 1, Len(d) - 1)) * 10 + DigitValue(d[Len(d)])

\* parseInt(s, 10): leading white space is skipped, then an optional sign, then the
\* longest run of digits; NaN when there is no digit; what follows is ignored
ParseInt(s) ==
  LET t == DropSpaces(s)
      negative == t # <<>> /\ Head(t) = "-"
      d == DigitsPrefix(IF negative THEN Tail(t) ELSE t)
  IN IF d = <<>> THEN NaN
     ELSE Num(IF negative THEN 0 - DigitsValue(d) ELSE DigitsValue(d))

\* ------------------------------------------------------------------ withRetry
\* a destructuring default applies to undefined only
WithDefault(x, d) == IF x.t = "undefined" THEN Num(d) ELSE x

maxRetries == WithDefault(options.maxRetries, DEFAULT_MAX_RETRIES)
baseDelay == WithDefault(options.baseDelay, RETRY_BASE_DELAY).v
maxDelay == WithDefault(options.maxDelay, RETRY_MAX_DELAY).v
backoffFactor == WithDefault(options.backoffFactor, RETRY_BACKOFF_FACTOR).v

RECURSIVE Pow(_, _)
Pow(b, e) == IF e <= 0 THEN 1 ELSE b * Pow(b, e - 1)

Min(a, b) == IF a <= b THEN a ELSE b

\* the --retries strings explored, and what the download action passes on
RetriesArgs == UNION {[1 .. n -> ArgChars] : n \in 0 .. MaxArgLen}

MaxRetriesOptions ==
  {Undefined} \cup
  {m \in {ParseInt(s) : s \in RetriesArgs} : m.t = "nan" \/ m.v <= MaxRetriesExplored}

DelayOptions ==
  { [baseDelay |-> Undefined, maxDelay |-> Undefined, backoffFactor |-> Undefined],
    [baseDelay |-> Num(1000), maxDelay |-> Num(3000), backoffFactor |-> Num(2)],
    [baseDelay |-> Num(500), maxDelay |-> Undefined, backoffFactor |-> Num(3)] }

\* the failures the wrapped operation is let to raise
OpErrors ==
  { PlainError(<<"ETIMEDOUT">>),
    PlainError(<<"rate", "limit">>),
    DownloadError(<<"boom">>, TRUE),
    PlainError(<<"boom">>),
    DownloadError(<<"Video", "private">>, FALSE),
    DownloadError(<<"network", "404">>, TRUE),
    DownloadError(<<"timeout">>, FALSE) }

Failure(e) == [kind |-> "error", error |-> e, value |-> 0]
Success(v) == [kind |-> "value", error |-> NoError, value |-> v]

Pending == [state |-> "pending", error |-> NoError, value |-> 0]
Resolved(v) == [state |-> "resolved", error |-> NoError, value |-> v]
Rejected(e) == [state |-> "rejected", error |-> e, value |-> 0]

InitRetry ==
  /\ IdleQueue
  /\ IdleClassify
  /\ IdleRun
  /\ IdleAux
  /\ \E m \in MaxRetriesOptions : \E d \in DelayOptions :
       options = [maxRetries |-> m, baseDelay |-> d.baseDelay,
                  maxDelay |-> d.maxDelay, backoffFactor |-> d.backoffFactor]
  /\ pcR = "loop"
  /\ attempt = 0
  /\ lastError = NoError
  /\ calls = 0
  /\ outcomes = <<>>
  /\ sleeps = <<>>
  /\ retryResult = Pending

\* line 33: while (attempt <= maxRetries)
LoopGuard == JsLeq(Num(attempt), maxRetries)

\* line 33 then line 35 (fn() is invoked) or line 65 (throw lastError)
EnterLoop ==
  /\ pcR = "loop"
  /\ IF LoopGuard
       THEN /\ pcR' = "awaitFn"
            /\ calls' = calls + 1
            /\ UNCHANGED retryResult
       ELSE /\ pcR' = "rejected"
            /\ retryResult' = Rejected(lastError)
            /\ UNCHANGED calls
  /\ UNCHANGED <<options, attempt, lastError, outcomes, sleeps>>
  /\ UNCHANGED otherThanRetry

\* forgetting the return: the value is dropped and the loop goes on
DropFnResult(v) ==
  /\ pcR' = "loop"
  /\ UNCHANGED retryResult

\* line 35: return await fn()
ReturnFnResult(v) ==
  /\ pcR' = "resolved"
  /\ retryResult' = Resolved(v)

FnResolves ==
  /\ pcR = "awaitFn"
  /\ outcomes' = Append(outcomes, Success(calls))
  /\ ReturnFnResult(calls)
  /\ UNCHANGED <<options, attempt, lastError, calls, sleeps>>
  /\ UNCHANGED otherThanRetry

\* never failing fast: every error is handed to the backoff
RetryEveryError(error) == FALSE

\* line 41: if (!isRetryableError(error))
FailFast(error) == ~ IsRetryableError(error)

\* exhausted one attempt early
ExhaustedOneEarly(n) == JsLeq(maxRetries, Num(n))

\* line 47: if (attempt > maxRetries)
Exhausted(n) == JsGt(Num(n), maxRetries)

\* the exponent taken from the incremented counter as it is
ExponentOffByOne(n) == n

\* line 54: Math.pow(backoffFactor, attempt - 1)
BackoffExponent(n) == n - 1

\* lines 53-56: Math.min(baseDelay * Math.pow(backoffFactor, attempt - 1), maxDelay)
Delay(n) == Min(baseDelay * Pow(backoffFactor, BackoffExponent(n)), maxDelay)

\* lines 36-62: the catch block, up to the throw or the call of sleep(delay)
FnRejects(e) ==
  LET error == [e EXCEPT !.raisedBy = calls]
      n == attempt + 1
  IN /\ pcR = "awaitFn"
     /\ outcomes' = Append(outcomes, Failure(error))
     /\ lastError' = error
     /\ attempt' = n
     /\ IF FailFast(error) \/ Exhausted(n)
          THEN /\ pcR' = "rejected"
               /\ retryResult' = Rejected(error)
               /\ UNCHANGED sleeps
          ELSE /\ pcR' = "sleeping"
               /\ sleeps' = Append(sleeps, Delay(n))
               /\ UNCHANGED retryResult
     /\ UNCHANGED <<options, calls>>
     /\ UNCHANGED otherThanRetry

\* lines 61, 71-73: the timer of sleep(delay) fires and the loop goes round
SleepElapsed ==
  /\ pcR = "sleeping"
  /\ pcR' = "loop"
  /\ UNCHANGED <<options, attempt, lastError, calls, outcomes, sleeps, retryResult>>
  /\ UNCHANGED otherThanRetry

NextRetry ==
  \/ EnterLoop
  \/ FnResolves
  \/ \E e \in OpErrors : FnRejects(e)
  \/ SleepElapsed

SpecRetry == InitRetry /\ [][NextRetry]_vars

\* ------------------------------------------------------- claims on withRetry
RECURSIVE SumSeq(_)
SumSeq(q) == IF q = <<>> THEN 0 ELSE Head(q) + SumSeq(Tail(q))

IsPrefix(p, q) == Len(p) <= Len(q) /\ \A k \in 1 .. Len(p) : p[k] = q[k]

RetryableFailure(o) == o.kind = "error" /\ IsRetryableError(o.error)

DefaultOptions ==
  /\ options.maxRetries \in {Undefined, Num(3)}
  /\ options.baseDelay = Undefined
  /\ options.maxDelay = Undefined
  /\ options.backoffFactor = Undefined

\* the delay the retry policy prescribes before the k-th retry
PrescribedDelay(k) ==
  LET d == baseDelay * Pow(backoffFactor, k - 1)
  IN IF d > maxDelay THEN maxDelay ELSE d

FirstFailedNonRetryable ==
  /\ Len(outcomes) >= 1
  /\ outcomes[1].kind = "error"
  /\ ~ IsRetryableError(outcomes[1].error)

\* C6: when the first fn() invocation fails with a non-retryable error, fn is
\* invoked exactly once, no sleep is taken, and withRetry rejects with that error.
C6_NonRetryableFailsFast ==
  FirstFailedNonRetryable =>
    /\ calls = 1
    /\ Len(outcomes) = 1
    /\ sleeps = <<>>
    /\ pcR = "rejected"
    /\ retryResult = Rejected(outcomes[1].error)

\* a non-retryable first failure although retries were allowed
C6_Witness ==
  /\ FirstFailedNonRetryable
  /\ maxRetries = Num(3)
  /\ retryResult.state = "rejected"

AllFailedRetryable == \A k \in 1 .. Len(outcomes) : RetryableFailure(outcomes[k])

\* C7: when every fn() invocation fails with a retryable error and maxRetries is
\* a number >= 0, fn is invoked maxRetries + 1 times and no more, sleep is called
\* maxRetries times, and withRetry then rejects with the error of the last
\* invocation.
C7_ExhaustionRethrowsLast ==
  (AllFailedRetryable /\ JsLeq(Num(0), maxRetries)) =>
    /\ calls <= maxRetries.v + 1
    /\ Len(sleeps) <= maxRetries.v
    /\ retryResult.state # "resolved"
    /\ (Len(outcomes) = maxRetries.v + 1) <=> (retryResult.state = "rejected")
    /\ retryResult.state = "rejected" =>
         /\ calls = maxRetries.v + 1
         /\ Len(sleeps) = maxRetries.v
         /\ retryResult.error = outcomes[Len(outcomes)].error
         /\ retryResult.error.raisedBy = maxRetries.v + 1

\* the default three retries were used up by different retryable errors
C7_Witness ==
  /\ AllFailedRetryable
  /\ maxRetries = Num(3)
  /\ retryResult.state = "rejected"
  /\ calls = 4
  /\ outcomes[1].error.type # outcomes[4].error.type

\* C8: the delay slept before the k-th retry is
\* min(baseDelay * backoffFactor^(k-1), maxDelay); it never exceeds maxDelay, and
\* with the default options the delays are 1000, 2000, 4000, in that order.
C8_BackoffDelays ==
  /\ \A k \in 1 .. Len(sleeps) :
       /\ sleeps[k] = PrescribedDelay(k)
       /\ sleeps[k] <= maxDelay
  /\ DefaultOptions => IsPrefix(sleeps, <<1000, 2000, 4000>>)
  /\ (DefaultOptions /\ retryResult.state = "rejected" /\ AllFailedRetryable)
       => sleeps = <<1000, 2000, 4000>>

\* the whole default sequence was slept
C8_Witness ==
  /\ DefaultOptions
  /\ sleeps = <<1000, 2000, 4000>>

\* a delay that the cap cut down to maxDelay
C8_CapReached ==
  /\ Len(sleeps) >= 3
  /\ sleeps[3] = maxDelay
  /\ baseDelay * Pow(backoffFactor, 2) > maxDelay

EventuallySucceeded ==
  /\ Len(outcomes) >= 1
  /\ outcomes[Len(outcomes)].kind = "value"

\* C9: when fn fails with retryable errors f times (f <= maxRetries) and then
\* succeeds, withRetry resolves with that value, fn was invoked f + 1 times and
\* is not invoked again, and the backoff taken is the sum of the first f delays
\* (3000 ms for f = 2 with the defaults).
C9_SucceedsAfterRetries ==
  EventuallySucceeded =>
    LET f == Len(outcomes) - 1
    IN /\ \A k \in 1 .. f : RetryableFailure(outcomes[k])
       /\ JsLeq(Num(f), maxRetries)
       /\ pcR = "resolved"
       /\ retryResult = Resolved(outcomes[f + 1].value)
       /\ outcomes[f + 1].value = f + 1
       /\ calls = f + 1
       /\ Len(sleeps) = f
       /\ SumSeq(sleeps) = SumSeq([k \in 1 .. f |-> PrescribedDelay(k)])
       /\ (DefaultOptions /\ f = 2) => SumSeq(sleeps) = 3000

\* ETIMEDOUT twice, then success on the third invocation, under the defaults
C9_Witness ==
  /\ EventuallySucceeded
  /\ DefaultOptions
  /\ Len(outcomes) = 3
  /\ outcomes[1].error.message = <<"ETIMEDOUT">>
  /\ outcomes[2].error.message = <<"ETIMEDOUT">>
  /\ retryResult.state = "resolved"
  /\ SumSeq(sleeps) = 3000

\* C10: withRetry never settles without having invoked fn at least once, for every
\* maxRetries the download action can pass on from --retries.
C10_InvokedAtLeastOnce ==
  retryResult.state \in {"resolved", "rejected"} => calls >= 1

\* ------------------------------------------------------ downloadVideoSubtitle
\* One invocation of downloadVideoSubtitle is one attempt. Videos are told apart by
\* their index; their ids are taken to be distinct.
ParseError(msg) ==
  [type |-> "ParseError", message |-> msg, isRetryable |-> "absent", raisedBy |-> 0]

\* String.prototype.includes is case-sensitive: the literals of lines 247-250 that a
\* word of the message holds
LiteralsIn(w) ==
  CASE w = "No subtitles" -> {"No subtitles"}
    [] w = "not available" -> {"not available"}
    [] w = "private" -> {"private"}
    [] w = "deleted" -> {"deleted"}
    [] OTHER -> {}

Includes(msg, literal) == \E k \in 1 .. Len(msg) : literal \in LiteralsIn(msg[k])

\* line 165: 'No subtitles available for this video'
NoSubtitlesMessage == <<"No subtitles", "available", "video">>

\* messages executeYtDlp fails with (the stderr of yt-dlp)
FetchErrorMessages ==
  { <<"Private", "video">>,      \* "Private video. Sign in if ..."
    <<"video", "private">>,      \* "This video is private"
    <<"Video", "unavailable">>,  \* "Video unavailable"
    <<"ETIMEDOUT">>,
    <<"404">> }

\* messages that report the video as unavailable, private or deleted
ReportsUnavailable(msg) ==
  msg \in { <<"Private", "video">>, <<"video", "private">>, <<"Video", "unavailable">> }

\* what one attempt ends with: the files were written, yt-dlp left no caption file,
\* a converter raised a ParseError, or executeYtDlp failed
AttemptOutcomes ==
  { [kind |-> "downloaded", message |-> <<>>],
    [kind |-> "noFiles", message |-> <<>>],
    [kind |-> "parseError", message |-> <<"Conversion failed", "boom">>] }
    \cup { [kind |-> "fetchError", message |-> m] : m \in FetchErrorMessages }

NoOutcome == [kind |-> "none", message |-> <<>>]

\* lines 156-222: the error raised inside the try block
RaisedInTry(o) ==
  CASE o.kind = "noFiles" -> DownloadError(NoSubtitlesMessage, FALSE)
    [] o.kind = "parseError" -> ParseError(o.message)
    [] o.kind = "fetchError" -> PlainError(o.message)

\* lines 246-251
KnownNonRetryable(msg) ==
  \/ Includes(msg, "No subtitles")
  \/ Includes(msg, "not available")
  \/ Includes(msg, "private")
  \/ Includes(msg, "deleted")

\* lines 243-258: the catch block wraps whatever was raised
WrapError(error) ==
  IF KnownNonRetryable(error.message)
    THEN DownloadError(error.message, FALSE)
    ELSE DownloadError(error.message, TRUE)

\* the error downloadVideoSubtitle rejects with when the attempt ends in o
DownloadVideoSubtitleThrows(o) == WrapError(RaisedInTry(o))

\* ------------------------------------------------------------ ProgressTracker
\* Math.round(num / den) for num >= 0 and den > 0: halves round up
MathRound(num, den) == (2 * num + den) \div (2 * den)

\* progress.js lines 10-19: the constructor; ids are the keys the map can get
NewProgressTracker(ids) ==
  [total |-> 0, completed |-> 0, succeeded |-> 0, failed |-> 0,
   videoSpinners |-> [i \in ids |-> "none"], mainSpinner |-> [on |-> FALSE]]

\* progress.js lines 113-128: getMainSpinnerText: the percentage and the counts
GetMainSpinnerText(st) ==
  [on |-> TRUE,
   percentage |-> IF st.total > 0 THEN MathRound(st.completed * 100, st.total) ELSE 0,
   succeeded |-> st.succeeded,
   failed |-> st.failed]

\* a text computed from the counters as they were before the call
StaleMainSpinnerText(before, after) == GetMainSpinnerText(before)

\* progress.js line 88: the text is computed when updateMainSpinner runs, after the
\* counters were changed
FreshMainSpinnerText(before, after) == GetMainSpinnerText(after)

\* progress.js lines 86-90: updateMainSpinner, called last by succeedVideo/failVideo
UpdateMainSpinner(before, after) ==
  IF before.mainSpinner.on
    THEN [after EXCEPT !.mainSpinner = FreshMainSpinnerText(before, after)]
    ELSE after

\* progress.js lines 23-29: start(totalVideos)
ProgressStart(st, totalVideos) ==
  LET counted == [st EXCEPT !.total = totalVideos]
  IN [counted EXCEPT !.mainSpinner = GetMainSpinnerText(counted)]

\* progress.js lines 133-148: complete(): the main spinner is stopped with the final
\* message (succeed when nothing failed, warn otherwise); the spinners of the videos
\* still spinning are stopped
ProgressComplete(st) ==
  IF st.mainSpinner.on
    THEN [st EXCEPT !.mainSpinner =
            [on |-> TRUE, ended |-> IF st.failed = 0 THEN "succeed" ELSE "warn",
             failed |-> st.failed]]
    ELSE st

\* ------------------------------------------------------------ StatsCollector
\* stats lines 17-30: reset(), called by the constructor
NewStatsCollector ==
  [total |-> 0, succeeded |-> 0, failed |-> 0, errors |-> <<>>, ended |-> FALSE]

\* stats lines 35-38: start(totalVideos)
StatsStart(st, totalVideos) == [st EXCEPT !.total = totalVideos]

\* an end() that is never made
StatsEndSkipped(st) == st

\* stats lines 68-70: end(): endTime is set
StatsEnd(st) == [st EXCEPT !.ended = TRUE]

\* a rate over the videos recorded so far instead of over the total
SuccessRateOfRecorded(st) ==
  IF st.succeeded + st.failed = 0
    THEN 0
    ELSE MathRound(st.succeeded * 100, st.succeeded + st.failed)

\* stats lines 92-95: getSuccessRate
GetSuccessRate(st) ==
  IF st.total = 0 THEN 0 ELSE MathRound(st.succeeded * 100, st.total)

\* stats lines 152-162: getStats: copies of the counters and of the error list
GetStats(st) ==
  [total |-> st.total, succeeded |-> st.succeeded, failed |-> st.failed,
   successRate |-> GetSuccessRate(st), errors |-> st.errors]

\* stats line 135: the most failures the report lists one by one
REPORT_ITEMIZED_MAX == 5

\* a report that lists every failure whatever their number
ItemizeEveryFailure(st) ==
  [successRate |-> GetSuccessRate(st), itemized |-> st.errors, countOnly |-> 0]

\* stats lines 100-147: generateReport: the failure part of the report is the list
\* of failures, or their number alone, or nothing
GenerateReport(st) ==
  [successRate |-> GetSuccessRate(st),
   itemized |-> IF Len(st.errors) > 0 /\ Len(st.errors) <= REPORT_ITEMIZED_MAX
                  THEN st.errors ELSE <<>>,
   countOnly |-> IF Len(st.errors) > REPORT_ITEMIZED_MAX THEN Len(st.errors) ELSE 0]

\* ---------------------------------------------------------- downloadSubtitles
MaxVideos == 2
MaxRunConcurrency == 2
MaxRunRetries == 1

\* maxRetries = parseInt(options.retries, 10) as the download action passes it
RunMaxRetriesOptions ==
  { m \in MaxRetriesOptions :
      /\ m.t # "undefined"
      /\ (m.t = "nan" \/ (m.v >= -1 /\ m.v <= MaxRunRetries)) }

NewWorker ==
  [pc |-> "notStarted", attempt |-> 0, fetches |-> 0, sleeps |-> 0,
   last |-> NoOutcome, error |-> NoError]

NoCalls == [startVideo |-> 0, succeedVideo |-> 0, failVideo |-> 0]

InitRun ==
  /\ nItems \in 0 .. MaxVideos
  /\ concurrency \in 0 .. MaxRunConcurrency
  /\ pcQ = "idle"
  /\ queue = <<>>
  /\ activeCount = 0
  /\ pendingChecks = 0
  /\ status = [i \in 0 .. (nItems - 1) |-> "new"]
  /\ promise = [i \in 0 .. (nItems - 1) |-> "none"]
  /\ outcome = [i \in 0 .. (nItems - 1) |-> "none"]
  /\ started = <<>>
  /\ succeeded = <<>>
  /\ failed = <<>>
  /\ returned = NoResult
  /\ \E m \in RunMaxRetriesOptions :
       options = [maxRetries |-> m, baseDelay |-> Undefined,
                  maxDelay |-> Undefined, backoffFactor |-> Undefined]
  /\ pcR = "idle" /\ attempt = 0 /\ lastError = NoError /\ calls = 0
  /\ outcomes = <<>> /\ sleeps = <<>> /\ retryResult = [state |-> "idle"]
  /\ IdleClassify
  /\ runPc = "init"
  /\ worker = [i \in 0 .. (nItems - 1) |-> NewWorker]
  /\ progress = NewProgressTracker(0 .. (nItems - 1))
  /\ trackerCalls = [i \in 0 .. (nItems - 1) |-> NoCalls]
  /\ stats = NewStatsCollector
  /\ runResult = [received |-> FALSE]
  /\ exitCode = -1
  /\ IdleAux

\* lines 47-53: new trackers, stats.start, progress.start, then processQueue is called
StartRun ==
  /\ runPc = "init"
  /\ runPc' = "queue"
  /\ pcQ' = "start"
  /\ stats' = StatsStart(stats, nItems)
  /\ progress' = ProgressStart(progress, nItems)
  /\ UNCHANGED <<nItems, concurrency, queue, activeCount, pendingChecks, status,
                 promise, outcome, started, succeeded, failed, returned>>
  /\ UNCHANGED <<worker, trackerCalls, runResult, exitCode>>
  /\ UNCHANGED <<retryVars, classifyVars, auxVars>>

\* progress.js lines 34-48: startVideo
StartVideo(i) ==
  /\ progress' = [progress EXCEPT !.videoSpinners[i] = "processing"]
  /\ trackerCalls' = [trackerCalls EXCEPT ![i].startVideo = @ + 1]

\* progress.js lines 53-64: succeedVideo; the counters move whether or not the id
\* was started
SucceedVideo(i) ==
  /\ progress' = UpdateMainSpinner(progress, [progress EXCEPT
       !.completed = @ + 1,
       !.succeeded = @ + 1,
       !.videoSpinners[i] = IF @ = "none" THEN @ ELSE "succeeded"])
  /\ trackerCalls' = [trackerCalls EXCEPT ![i].succeedVideo = @ + 1]

\* progress.js lines 69-81: failVideo
FailVideo(i) ==
  /\ progress' = UpdateMainSpinner(progress, [progress EXCEPT
       !.completed = @ + 1,
       !.failed = @ + 1,
       !.videoSpinners[i] = IF @ = "none" THEN @ ELSE "failed"])
  /\ trackerCalls' = [trackerCalls EXCEPT ![i].failVideo = @ + 1]

\* ---- a ProgressTracker called on its own, in any order
MaxTrackedIds == 1
MaxTrackerTotal == 3
MaxTrackerCalls == 2

TrackedIds == 0 .. (MaxTrackedIds - 1)

InitTracker ==
  /\ IdleQueue /\ IdleRetry /\ IdleClassify
  /\ runPc = "idle" /\ worker = <<>> /\ stats = <<>>
  /\ runResult = [received |-> FALSE] /\ exitCode = -1
  /\ progress = NewProgressTracker(TrackedIds)
  /\ trackerCalls = [i \in TrackedIds |-> NoCalls]
  /\ trackerBefore = NoCall
  /\ callArgs = <<>> /\ callResult = [state |-> "idle"]
  /\ failureLog = <<>> /\ fileSystem = {}

TrackerFrame ==
  /\ UNCHANGED <<runPc, worker, stats, runResult, exitCode>>
  /\ UNCHANGED <<callArgs, callResult, failureLog, fileSystem>>
  /\ UNCHANGED <<queueVars, retryVars, classifyVars>>

\* progress.start(totalVideos)
TrackerStart(totalVideos) ==
  /\ progress' = ProgressStart(progress, totalVideos)
  /\ trackerBefore' = [op |-> "start", id |-> totalVideos, progress |-> progress]
  /\ UNCHANGED trackerCalls
  /\ TrackerFrame

\* progress.startVideo(id, title)
TrackerStartVideo(id) ==
  /\ trackerCalls[id].startVideo < MaxTrackerCalls
  /\ StartVideo(id)
  /\ trackerBefore' = [op |-> "startVideo", id |-> id, progress |-> progress]
  /\ TrackerFrame

\* progress.succeedVideo(id, title)
TrackerSucceedVideo(id) ==
  /\ progress.completed < MaxTrackerCalls
  /\ SucceedVideo(id)
  /\ trackerBefore' = [op |-> "succeedVideo", id |-> id, progress |-> progress]
  /\ TrackerFrame

\* progress.failVideo(id, title, errorMessage)
TrackerFailVideo(id) ==
  /\ progress.completed < MaxTrackerCalls
  /\ FailVideo(id)
  /\ trackerBefore' = [op |-> "failVideo", id |-> id, progress |-> progress]
  /\ TrackerFrame

NextTracker ==
  \/ \E n \in 0 .. MaxTrackerTotal : TrackerStart(n)
  \/ \E id \in TrackedIds : TrackerStartVideo(id)
  \/ \E id \in TrackedIds : TrackerSucceedVideo(id)
  \/ \E id \in TrackedIds : TrackerFailVideo(id)

SpecTracker == InitTracker /\ [][NextTracker]_vars

\* the last call was succeedVideo or failVideo
EndedVideoCall == trackerBefore.op \in {"succeedVideo", "failVideo"}

\* C21: succeedVideo or failVideo for an id that was never started leaves the
\* tracker as it was: counters and per-item status map.
C21_UnstartedIdIsIgnored ==
  (EndedVideoCall /\ trackerBefore.progress.videoSpinners[trackerBefore.id] = "none")
    => progress = trackerBefore.progress

RecordSuccessLater(i) == UNCHANGED stats

\* stats lines 43-51: recordSuccess
RecordSuccess(i) == stats' = [stats EXCEPT !.succeeded = @ + 1]

\* stats lines 56-63: recordFailure
RecordFailure(i) ==
  stats' = [stats EXCEPT !.failed = @ + 1, !.errors = Append(@, [videoId |-> i])]

\* ---- a StatsCollector called on its own, in any order
MaxRecordedFailures == 6
MaxRecordedSuccesses == 1
MaxFailedIds == 2

FailedIds == 0 .. (MaxFailedIds - 1)

NothingReturned == [state |-> "none", report |-> [made |-> FALSE],
                    snapshot |-> [made |-> FALSE]]

InitCollector ==
  /\ IdleQueue /\ IdleRetry /\ IdleClassify
  /\ runPc = "idle" /\ worker = <<>> /\ progress = <<>> /\ trackerCalls = <<>>
  /\ runResult = [received |-> FALSE] /\ exitCode = -1
  /\ stats = NewStatsCollector
  /\ failureLog = <<>>
  /\ callResult = NothingReturned
  /\ callArgs = <<>> /\ trackerBefore = NoCall /\ fileSystem = {}

CollectorFrame ==
  /\ UNCHANGED <<runPc, worker, progress, trackerCalls, runResult, exitCode>>
  /\ UNCHANGED <<callArgs, trackerBefore, fileSystem>>
  /\ UNCHANGED <<queueVars, retryVars, classifyVars>>

\* stats.start(totalVideos)
CollectorStart(totalVideos) ==
  /\ stats.total = 0
  /\ stats' = StatsStart(stats, totalVideos)
  /\ callResult' = NothingReturned
  /\ UNCHANGED failureLog
  /\ CollectorFrame

\* stats.recordSuccess(...)
CollectorRecordSuccess ==
  /\ stats.succeeded < MaxRecordedSuccesses
  /\ RecordSuccess(0)
  /\ callResult' = NothingReturned
  /\ UNCHANGED failureLog
  /\ CollectorFrame

\* stats.recordFailure(videoId, title, error)
CollectorRecordFailure(id) ==
  /\ Len(failureLog) < MaxRecordedFailures
  /\ RecordFailure(id)
  /\ failureLog' = Append(failureLog, id)
  /\ callResult' = NothingReturned
  /\ CollectorFrame

\* stats.generateReport()
CollectorGenerateReport ==
  /\ callResult' = [callResult EXCEPT !.state = "returned",
                                      !.report = [made |-> TRUE,
                                                  text |-> GenerateReport(stats)]]
  /\ UNCHANGED <<stats, failureLog>>
  /\ CollectorFrame

\* stats.getStats()
CollectorGetStats ==
  /\ callResult' = [callResult EXCEPT !.state = "returned",
                                      !.snapshot = [made |-> TRUE,
                                                    value |-> GetStats(stats)]]
  /\ UNCHANGED <<stats, failureLog>>
  /\ CollectorFrame

NextCollector ==
  \/ \E n \in 1 .. MaxRecordedFailures : CollectorStart(n)
  \/ CollectorRecordSuccess
  \/ \E id \in FailedIds : CollectorRecordFailure(id)
  \/ CollectorGenerateReport
  \/ CollectorGetStats

SpecCollector == InitCollector /\ [][NextCollector]_vars

\* the failures recorded so far, as entries of the error list, in call order
RecordedFailures == [k \in 1 .. Len(failureLog) |-> [videoId |-> failureLog[k]]]

\* C24: the report lists each failure when there are 1 to 5 of them and shows only
\* their number when there are more than 5; getStats().errors always holds every
\* recorded failure in the order of the recordFailure calls.
C24_ReportTruncatesStatsDoNot ==
  /\ callResult.report.made =>
       LET r == callResult.report.text
           n == Len(failureLog)
       IN /\ (n >= 1 /\ n <= 5) => (r.itemized = RecordedFailures /\ r.countOnly = 0)
          /\ n > 5 => (r.itemized = <<>> /\ r.countOnly = n)
          /\ n = 0 => (r.itemized = <<>> /\ r.countOnly = 0)
  /\ callResult.snapshot.made => callResult.snapshot.value.errors = RecordedFailures

\* six failures were recorded, then the report and the statistics were taken
C24_Witness ==
  /\ Len(failureLog) = 6
  /\ callResult.report.made
  /\ callResult.report.text.countOnly = 6
  /\ callResult.snapshot.made
  /\ Len(callResult.snapshot.value.errors) = 6

\* withRetry line 33 for the call made by the worker of video i
WorkerLoopGuard(i) == JsLeq(Num(worker[i].attempt), maxRetries)

\* withRetry lines 33-35 and 65: the loop test, then fn() or throw lastError
WorkerEntersLoop(w) ==
  IF JsLeq(Num(w.attempt), maxRetries)
    THEN [w EXCEPT !.pc = "fetching", !.fetches = @ + 1]
    ELSE [w EXCEPT !.pc = "rejected"]

\* downloader lines 58-69: the worker up to its first suspension: startVideo, then
\* withRetry invokes downloadVideoSubtitle (or rejects at once)
WorkerBegins(i) ==
  /\ StartVideo(i)
  /\ worker' = [worker EXCEPT ![i] = WorkerEntersLoop(@)]
  /\ UNCHANGED <<runPc, stats, runResult, exitCode>>

\* the worker of the item p-limit has just started, if it started one
StartedWorkerBegins ==
  IF Len(started') > Len(started)
    THEN WorkerBegins(started'[Len(started')])
    ELSE UNCHANGED runVars

RunCreateLimit == runPc = "queue" /\ CreateLimit
RunMapItems == runPc = "queue" /\ MapItems

RunStartCheck ==
  /\ runPc = "queue"
  /\ StartCheckStep
  /\ StartedWorkerBegins
  /\ UNCHANGED <<retryVars, classifyVars, auxVars>>

\* a sleep that keeps the thread: nothing else runs until it is over
ResumableUnlessAsleep(i, pc) ==
  worker[i].pc = pc /\ \A j \in DOMAIN worker \ {i} : worker[j].pc # "sleeping"

\* the worker of video i is suspended at an await (of downloadVideoSubtitle, of
\* sleep's timer promise, retry.js lines 71-73, or of the logger) and is resumed when
\* what it awaits settles, whatever the other workers are doing
Resumable(i, pc) == worker[i].pc = pc

\* an attempt ends: downloadVideoSubtitle resolves, or rejects into withRetry's catch
\* block (lines 36-62), which rethrows or goes to sleep
AttemptSettles(i, o) ==
  /\ runPc = "queue"
  /\ Resumable(i, "fetching")
  /\ worker' = [worker EXCEPT ![i] =
       IF o.kind = "downloaded"
         THEN [@ EXCEPT !.pc = "resolved", !.last = o]
         ELSE LET error == DownloadVideoSubtitleThrows(o)
                  n == @.attempt + 1
              IN IF FailFast(error) \/ Exhausted(n)
                   THEN [@ EXCEPT !.pc = "rejected", !.last = o, !.error = error,
                                  !.attempt = n]
                   ELSE [@ EXCEPT !.pc = "sleeping", !.last = o, !.error = error,
                                  !.attempt = n, !.sleeps = @ + 1]]
  /\ UNCHANGED <<runPc, progress, trackerCalls, stats, runResult, exitCode>>
  /\ UNCHANGED <<queueVars, retryVars, classifyVars, auxVars>>

\* withRetry lines 61, 33: the sleep is over and the loop goes round
BackoffElapsed(i) ==
  /\ runPc = "queue"
  /\ Resumable(i, "sleeping")
  /\ worker' = [worker EXCEPT ![i] = WorkerEntersLoop(@)]
  /\ UNCHANGED <<runPc, progress, trackerCalls, stats, runResult, exitCode>>
  /\ UNCHANGED <<queueVars, retryVars, classifyVars, auxVars>>

\* downloader lines 71-74: withRetry resolved: succeedVideo, recordSuccess, return;
\* processQueue's try branch takes the result
WorkerSucceeds(i) ==
  /\ runPc = "queue"
  /\ Resumable(i, "resolved")
  /\ SucceedVideo(i)
  /\ RecordSuccess(i)
  /\ worker' = [worker EXCEPT ![i].pc = "finished"]
  /\ WorkerResolvesStep(i)
  /\ UNCHANGED <<runPc, runResult, exitCode>>
  /\ UNCHANGED <<retryVars, classifyVars, auxVars>>

\* downloader lines 75-80: withRetry rejected. error.message.slice throws a TypeError
\* when the rejection value is undefined, and the worker rejects with it before any
\* bookkeeping; otherwise failVideo, recordFailure, then await logger.error
WorkerCatches(i) ==
  /\ runPc = "queue"
  /\ Resumable(i, "rejected")
  /\ IF worker[i].error = NoError
       THEN /\ worker' = [worker EXCEPT ![i].pc = "finished"]
            /\ WorkerRejectsStep(i)
            /\ UNCHANGED <<progress, trackerCalls, stats>>
       ELSE /\ FailVideo(i)
            /\ RecordFailure(i)
            /\ worker' = [worker EXCEPT ![i].pc = "logging"]
            /\ UNCHANGED queueVars
  /\ UNCHANGED <<runPc, runResult, exitCode>>
  /\ UNCHANGED <<retryVars, classifyVars, auxVars>>

\* downloader line 82: throw error; processQueue's catch branch records the item
WorkerRethrows(i) ==
  /\ runPc = "queue"
  /\ Resumable(i, "logging")
  /\ worker' = [worker EXCEPT ![i].pc = "finished"]
  /\ WorkerRejectsStep(i)
  /\ UNCHANGED <<runPc, progress, trackerCalls, stats, runResult, exitCode>>
  /\ UNCHANGED <<retryVars, classifyVars, auxVars>>

RunReleaseSlot(i) ==
  /\ runPc = "queue"
  /\ ReleaseSlotStep(i)
  /\ StartedWorkerBegins
  /\ UNCHANGED <<retryVars, classifyVars, auxVars>>

RunPromiseAllSettles == runPc = "queue" /\ PromiseAllSettles
RunReturnResults == runPc = "queue" /\ ReturnResults

\* downloader lines 88-99: progress.complete, stats.end, the report, and the return
\* of {succeeded, failed, stats}
CompleteRun ==
  /\ runPc = "queue"
  /\ pcQ = "returned"
  /\ runPc' = "returned"
  /\ progress' = ProgressComplete(progress)
  /\ stats' = StatsEnd(stats)
  /\ runResult' = [received |-> TRUE, succeeded |-> returned.succeeded,
                   failed |-> returned.failed, stats |-> GetStats(stats')]
  /\ UNCHANGED <<worker, trackerCalls, exitCode>>
  /\ UNCHANGED <<queueVars, retryVars, classifyVars, auxVars>>

\* an exit code that reports whether any attempt of the run failed
ExitCodeOnAnyFailedAttempt(result) ==
  IF \E i \in DOMAIN worker : worker[i].attempt > 0 THEN 1 ELSE 0

\* index.js line 244
ExitCodeOf(result) == IF Len(result.failed) > 0 THEN 1 ELSE 0

\* index.js lines 244-252: the download action exits with the code of the result
ExitAfterRun ==
  /\ runPc = "returned"
  /\ runPc' = "exited"
  /\ exitCode' = ExitCodeOf(runResult)
  /\ UNCHANGED <<worker, progress, trackerCalls, stats, runResult>>
  /\ UNCHANGED <<queueVars, retryVars, classifyVars, auxVars>>

\* processQueue rejected (pLimit threw): downloadSubtitles rejects, and the download
\* action's catch calls handleError, which exits with 1 (index.js lines 253-255, 145)
RunRejects ==
  /\ runPc = "queue"
  /\ pcQ = "rejected"
  /\ runPc' = "rejected"
  /\ exitCode' = 1
  /\ UNCHANGED <<worker, progress, trackerCalls, stats, runResult>>
  /\ UNCHANGED <<queueVars, retryVars, classifyVars, auxVars>>

NextRun ==
  \/ StartRun
  \/ RunCreateLimit
  \/ RunMapItems
  \/ RunStartCheck
  \/ \E i \in ItemIndexes : \E o \in AttemptOutcomes : AttemptSettles(i, o)
  \/ \E i \in ItemIndexes : BackoffElapsed(i)
  \/ \E i \in ItemIndexes : WorkerSucceeds(i)
  \/ \E i \in ItemIndexes : WorkerCatches(i)
  \/ \E i \in ItemIndexes : WorkerRethrows(i)
  \/ \E i \in ItemIndexes : RunReleaseSlot(i)
  \/ RunPromiseAllSettles
  \/ RunReturnResults
  \/ CompleteRun
  \/ ExitAfterRun
  \/ RunRejects

SpecRun == InitRun /\ [][NextRun]_vars

\* ------------------------------------------------ claims on downloadSubtitles
Videos == DOMAIN worker

\* the attempt of video i that ended last, or is still remembered while the next one
\* is awaited
LastOutcome(i) == worker[i].last

\* after its last ended attempt, video i is waiting for a backoff or is fetched again
RetriedAfterLast(i) == worker[i].pc \in {"sleeping", "fetching"}

\* withRetry gave up on video i
GaveUp(i) == worker[i].pc \in {"rejected", "logging", "finished"}

\* C14: a fetch failure whose message reports the video as unavailable, private or
\* deleted is wrapped non-retryable and the video is not fetched again; every other
\* fetch failure is wrapped retryable and retried until maxRetries is used up.
C14_UnavailableFetchedOnce ==
  \A i \in Videos :
    LastOutcome(i).kind = "fetchError" =>
      IF ReportsUnavailable(LastOutcome(i).message)
        THEN /\ worker[i].error.isRetryable = "false"
             /\ ~ RetriedAfterLast(i)
        ELSE /\ worker[i].error.isRetryable = "true"
             /\ GaveUp(i) => Exhausted(worker[i].attempt)

C16_ParseErrorNeverRetried ==
  \A i \in Videos :
    LastOutcome(i).kind = "parseError" => ~ RetriedAfterLast(i)

\* C17: with a valid concurrency downloadSubtitles never rejects: no limited promise
\* rejects, the run cannot stop before it has returned, and the result holds every
\* video in exactly one of the two buckets.
C17_NoFailureEscapes ==
  (runPc # "init" /\ ValidConcurrency(concurrency)) =>
    /\ runPc # "rejected"
    /\ pcQ # "rejected"
    /\ \A i \in Videos : promise[i] # "rejected"
    /\ (~ ENABLED NextRun) => (runPc = "exited" /\ runResult.received)
    /\ runResult.received =>
         /\ Indexes(runResult.succeeded) \cup Indexes(runResult.failed) = Videos
         /\ Indexes(runResult.succeeded) \cap Indexes(runResult.failed) = {}
         /\ Len(runResult.succeeded) + Len(runResult.failed) = nItems

\* a returned run in which one video failed after its retries were used up and
\* another one was downloaded
C17_Witness ==
  /\ runResult.received
  /\ ValidConcurrency(concurrency)
  /\ \E i \in Videos :
       /\ i \in Indexes(runResult.failed)
       /\ worker[i].attempt >= 2
  /\ \E i \in Videos : i \in Indexes(runResult.succeeded)

\* C18: when downloadSubtitles returns, its statistics agree with its buckets.
C18_StatsAgreeWithBuckets ==
  runResult.received =>
    /\ runResult.stats.succeeded = Len(runResult.succeeded)
    /\ runResult.stats.failed = Len(runResult.failed)
    /\ Len(runResult.stats.errors) = Len(runResult.failed)
    /\ Len(runResult.succeeded) + Len(runResult.failed) = runResult.stats.total
    /\ runResult.stats.total = nItems

\* C19: after a full run the exit code is non-zero exactly when the failed bucket is
\* non-empty, that is exactly when some video did not end downloaded; failed
\* attempts of a video that was downloaded in the end do not count.
C19_ExitCodeFromFailedBucket ==
  (runPc = "exited" /\ runResult.received) =>
    /\ exitCode \in {0, 1}
    /\ exitCode # 0 <=> Len(runResult.failed) > 0
    /\ exitCode = 0 <=> \A i \in Videos : LastOutcome(i).kind = "downloaded"

\* the process exited with 0 after a run in which a video failed an attempt, was
\* retried and was downloaded
C19_Witness ==
  /\ runPc = "exited"
  /\ exitCode = 0
  /\ \E i \in Videos :
       /\ worker[i].attempt >= 1
       /\ worker[i].sleeps >= 1
       /\ LastOutcome(i).kind = "downloaded"

\* C20: for each video startVideo is called once and before any fetch, exactly one of
\* succeedVideo / failVideo is called once and after the last attempt, and the
\* per-item status goes from processing to succeeded or failed once.
C20_TrackerLifecycle ==
  \A i \in Videos :
    LET c == trackerCalls[i]
        ended == c.succeedVideo + c.failVideo
    IN /\ c.startVideo <= 1
       /\ worker[i].fetches > 0 => c.startVideo = 1
       /\ ended <= 1
       /\ ended = 1 => worker[i].pc \in {"logging", "finished"}
       /\ worker[i].pc = "finished" => ended = 1
       /\ progress.videoSpinners[i] =
            IF c.succeedVideo = 1 THEN "succeeded"
            ELSE IF c.failVideo = 1 THEN "failed"
            ELSE IF c.startVideo = 1 THEN "processing"
            ELSE "none"

DottedTimecodes == {"00:00:01.000", "00:00:02.000", "00:00:01.920"}

\* the tokens that match [a-z] under the i flag
SingleLetters == {"c"}

\* String.prototype.trim
Trim(line) ==
  LET solid == {k \in 1 .. Len(line) : line[k] # " "}
  IN IF solid = {} THEN <<>>
     ELSE SubSeq(line, CHOOSE k \in solid : \A j \in solid : k <= j,
                       CHOOSE k \in solid : \A j \in solid : k >= j)

\* downloader.js line 294: text.replace(/<\d{2}:\d{2}:\d{2}\.\d{3}>/g, ''): one pass
\* from the left over the line as it was
RECURSIVE RemoveTimingTags(_)
RemoveTimingTags(line) ==
  IF Len(line) >= 3 /\ line[1] = "<" /\ line[2] \in DottedTimecodes /\ line[3] = ">"
    THEN RemoveTimingTags(SubSeq(line, 4, Len(line)))
  ELSE IF line = <<>> THEN <<>>
  ELSE <<Head(line)>> \o RemoveTimingTags(Tail(line))

\* downloader.js line 297: text.replace(/<\/?[a-z]>/gi, ''): one pass from the left
RECURSIVE RemoveStyleTags(_)
RemoveStyleTags(line) ==
  IF Len(line) >= 3 /\ line[1] = "<" /\ line[2] \in SingleLetters /\ line[3] = ">"
    THEN RemoveStyleTags(SubSeq(line, 4, Len(line)))
  ELSE IF /\ Len(line) >= 4 /\ line[1] = "<" /\ line[2] = "/"
          /\ line[3] \in SingleLetters /\ line[4] = ">"
    THEN RemoveStyleTags(SubSeq(line, 5, Len(line)))
  ELSE IF line = <<>> THEN <<>>
  ELSE <<Head(line)>> \o RemoveStyleTags(Tail(line))

\* downloader.js line 300: text.replace(/\s+/g, ' ')
RECURSIVE CollapseWhitespace(_)
CollapseWhitespace(line) ==
  IF Len(line) >= 2 /\ line[1] = " " /\ line[2] = " "
    THEN CollapseWhitespace(Tail(line))
  ELSE IF line = <<>> THEN <<>>
  ELSE <<Head(line)>> \o CollapseWhitespace(Tail(line))

\* downloader.js lines 291-300 (and 354-362): the text kept from a trimmed line
CleanText(line) == Trim(CollapseWhitespace(RemoveStyleTags(RemoveTimingTags(line))))

\* keeps every non-empty text, a repeated one too
RetainNonEmpty(text, previousText) == text # <<>>

\* downloader.js line 303 (and 330, 367): text && text !== previousText
Retained(text, previousText) == text # <<>> /\ text # previousText

\* downloader.js lines 282-286: the lines parseVTT skips
SkippedByParseVTT(line) ==
  \/ line = <<>>
  \/ Head(line) = "WEBVTT"
  \/ \E k \in 1 .. Len(line) : line[k] \in {"Kind:", "Language:", "-->"}

\* downloader.js lines 278-308: the loop of parseVTT from line i on
RECURSIVE ParseVTTLoop(_, _, _, _)
ParseVTTLoop(lines, i, textLines, previousText) ==
  IF i > Len(lines) THEN textLines
  ELSE LET line == Trim(lines[i])
           text == CleanText(line)
       IN IF SkippedByParseVTT(line)
            THEN ParseVTTLoop(lines, i + 1, textLines, previousText)
          ELSE IF Retained(text, previousText)
            THEN ParseVTTLoop(lines, i + 1, Append(textLines, text), text)
          ELSE ParseVTTLoop(lines, i + 1, textLines, previousText)

\* downloader.js lines 274-311: parseVTT; the result is the lines that join('\n') joins
ParseVTT(content) == ParseVTTLoop(content, 1, <<>>, <<>>)

\* downloader.js line 327:
\* line.match(/^(\d{2}:\d{2}:\d{2}\.\d{3})\s*-->\s*(\d{2}:\d{2}:\d{2}\.\d{3})/)
TimestampMatch(line) ==
  LET afterStart == IF line = <<>> THEN <<>> ELSE DropSpaces(Tail(line))
      afterArrow == IF afterStart = <<>> THEN <<>> ELSE DropSpaces(Tail(afterStart))
  IN IF /\ line # <<>> /\ Head(line) \in DottedTimecodes
        /\ afterStart # <<>> /\ Head(afterStart) = "-->"
        /\ afterArrow # <<>> /\ Head(afterArrow) \in DottedTimecodes
       THEN [matched |-> TRUE, start |-> Head(line), end |-> Head(afterArrow)]
       ELSE [matched |-> FALSE]

\* downloader.js lines 329-333 and 366-369: push the caption that was being read
PushCaption(captions, currentCaption, previousText) ==
  IF currentCaption.open /\ Retained(currentCaption.text, previousText)
    THEN Append(captions, [start |-> currentCaption.start, end |-> currentCaption.end,
                           text |-> currentCaption.text])
    ELSE captions

\* downloader.js lines 320-370: the loop of parseVTTWithTimestamps and the last push;
\* a text line replaces the text of the caption being read (line 364)
RECURSIVE ParseTimestampsLoop(_, _, _, _, _)
ParseTimestampsLoop(lines, i, captions, currentCaption, previousText) ==
  IF i > Len(lines) THEN PushCaption(captions, currentCaption, previousText)
  ELSE
    LET line == Trim(lines[i])
        m == TimestampMatch(line)
        pushed == PushCaption(captions, currentCaption, previousText)
        text == CleanText(line)
    IN IF line # <<>> /\ (Head(line) = "WEBVTT"
                          \/ \E k \in 1 .. Len(line) : line[k] \in {"Kind:", "Language:"})
         THEN ParseTimestampsLoop(lines, i + 1, captions, currentCaption, previousText)
       ELSE IF m.matched
         THEN ParseTimestampsLoop(lines, i + 1, pushed,
                [open |-> TRUE, start |-> m.start, end |-> m.end, text |-> <<>>],
                IF pushed # captions THEN currentCaption.text ELSE previousText)
       ELSE IF currentCaption.open /\ line # <<>> /\ text # <<>>
         THEN ParseTimestampsLoop(lines, i + 1, captions,
                [currentCaption EXCEPT !.text = text], previousText)
       ELSE ParseTimestampsLoop(lines, i + 1, captions, currentCaption, previousText)

\* downloader.js lines 316-373: parseVTTWithTimestamps; currentCaption starts as null
ParseVTTWithTimestamps(content) == ParseTimestampsLoop(content, 1, <<>>, [open |-> FALSE], <<>>)

\* ---- the two conversions applied to subtitle files of a few lines
MaxLines == 4

VttTimeLine == <<"00:00:01.000", " ", "-->", " ", "00:00:02.000">>
SrtTimeLine == <<"00:00:01,000", " ", "-->", " ", "00:00:02,000">>

\* the lines a subtitle file is made of
FileLines ==
  { <<"WEBVTT">>, VttTimeLine, SrtTimeLine, <<"1">>, <<>>, <<"Hello">>, <<"World">>,
    <<" ", "<", "c", ">", "Hello", " ", " ", "<", "00:00:01.920", ">", "<", "/", "c", ">">>,
    <<"<", "<", "c", ">", "c", ">">>,
    <<"<", "<", "c", ">", "00:00:01.920", ">">> }

FileContents == UNION {[1 .. n -> FileLines] : n \in 0 .. MaxLines}

InitParse ==
  /\ IdleQueue /\ IdleRetry /\ IdleClassify /\ IdleRun
  /\ callArgs \in FileContents
  /\ callResult = [state |-> "idle"]
  /\ trackerBefore = NoCall /\ failureLog = <<>> /\ fileSystem = {}

\* downloader.js lines 378-442: convertToPlainText of a .vtt file
ConvertToPlainText ==
  /\ callResult.state = "idle"
  /\ callResult' = [state |-> "text", lines |-> ParseVTT(callArgs)]
  /\ UNCHANGED <<callArgs, trackerBefore, failureLog, fileSystem>>
  /\ UNCHANGED <<queueVars, retryVars, classifyVars, runVars>>

\* downloader.js lines 459-496: convertToJSON, of a .vtt file or a .srt file alike
ConvertToJSON ==
  /\ callResult.state = "idle"
  /\ callResult' = [state |-> "json", subtitles |-> ParseVTTWithTimestamps(callArgs)]
  /\ UNCHANGED <<callArgs, trackerBefore, failureLog, fileSystem>>
  /\ UNCHANGED <<queueVars, retryVars, classifyVars, runVars>>

NextParse == ConvertToPlainText \/ ConvertToJSON

SpecParse == InitParse /\ [][NextParse]_vars

\* the texts of the entries of the output, in order
OutputTexts ==
  IF callResult.state = "text" THEN callResult.lines
  ELSE IF callResult.state = "json"
    THEN [k \in 1 .. Len(callResult.subtitles) |-> callResult.subtitles[k].text]
  ELSE <<>>

C26_NoMarkupLeft ==
  \A n \in 1 .. Len(OutputTexts) :
    LET t == OutputTexts[n]
    IN /\ t # <<>> => (Head(t) # " " /\ t[Len(t)] # " ")
       /\ \A k \in 1 .. (Len(t) - 1) : ~ (t[k] = " " /\ t[k + 1] = " ")
       /\ \A k \in 1 .. (Len(t) - 2) :
            ~ (t[k] = "<" /\ t[k + 1] \in DottedTimecodes \cup SingleLetters /\ t[k + 2] = ">")
       /\ \A k \in 1 .. (Len(t) - 3) :
            ~ (t[k] = "<" /\ t[k + 1] = "/" /\ t[k + 2] \in SingleLetters /\ t[k + 3] = ">")

\* C27: a cue followed by several text lines keeps the text of every one of them.
C27_CueTextConcatenated ==
  ( /\ callResult.state = "json"
    /\ Len(callArgs) >= 2
    /\ callArgs[1] = VttTimeLine
    /\ \A k \in 2 .. Len(callArgs) : callArgs[k] \in {<<"Hello">>, <<"World">>} )
  => /\ Len(callResult.subtitles) = 1
     /\ \A k \in 2 .. Len(callArgs) :
          \E j \in 1 .. Len(callResult.subtitles[1].text) :
            callResult.subtitles[1].text[j] = callArgs[k][1]

\* C28: a numbered cue of the classic dialect converted to JSON gives one entry with
\* the cue's start and end timecodes and its text.
C28_ClassicDialectToJSON ==
  ( /\ callResult.state = "json"
    /\ Len(callArgs) = 3
    /\ callArgs[1] = <<"1">> /\ callArgs[2] = SrtTimeLine
    /\ callArgs[3] \in {<<"Hello">>, <<"World">>} )
  => callResult.subtitles =
       << [start |-> "00:00:01,000", end |-> "00:00:02,000", text |-> callArgs[3]] >>

\* ------------------------------------------------- enrichVideoMetadata
\* the most distinct truthy values a descriptor field takes
MaxFieldValues == 2

\* what a field holds: undefined (absent), a falsy value (0 or ''), or a truthy one
FieldValues == {Undefined} \cup {Num(n) : n \in 0 .. MaxFieldValues}

\* the values JavaScript treats as true
Truthy(x) == x.t = "num" /\ x.v # 0

\* takes what was fetched whatever it is
TakeFetched(a, b) == a

\* a || b
JsOr(a, b) == IF Truthy(a) THEN a ELSE b

\* the descriptors of one video, as the extractor hands them over
Descriptors ==
  [id : {"v1"}, title : {"My Video"}, url : {"https://youtu.be/v1"},
   upload_date_raw : FieldValues, upload_date : FieldValues,
   uploader : FieldValues, duration : FieldValues]

\* extractor.js lines 71-123: getVideoInfo throws, or returns what yt-dlp reported
\* (with the title sanitized and the url it was asked for)
FetchOutcomes ==
  {[ok |-> FALSE]} \cup
  {[ok |-> TRUE, info |-> i] :
     i \in [id : {"v1"}, title : {"My Video sanitized"}, url : {"https://youtu.be/v1"},
            upload_date_raw : {Undefined}, upload_date : FieldValues,
            uploader : FieldValues, duration : FieldValues]}

\* extractor.js lines 233-251: enrichVideoMetadata
EnrichVideoMetadata(video, fetched) ==
  IF fetched.ok
    THEN [id |-> video.id, title |-> video.title, url |-> video.url,
          upload_date_raw |-> video.upload_date_raw,
          upload_date |-> JsOr(fetched.info.upload_date, video.upload_date),
          uploader |-> JsOr(fetched.info.uploader, video.uploader),
          duration |-> JsOr(fetched.info.duration, video.duration)]
    ELSE video

InitEnrich ==
  /\ IdleQueue /\ IdleRetry /\ IdleClassify /\ IdleRun
  /\ callArgs \in Descriptors
  /\ callResult = [state |-> "idle"]
  /\ trackerBefore = NoCall /\ failureLog = <<>> /\ fileSystem = {}

\* a call of enrichVideoMetadata(video) and what its fetch came to
EnrichCall(fetched) ==
  /\ callResult.state = "idle"
  /\ callResult' = [state |-> "enriched", fetched |-> fetched,
                    video |-> EnrichVideoMetadata(callArgs, fetched)]
  /\ UNCHANGED <<callArgs, trackerBefore, failureLog, fileSystem>>
  /\ UNCHANGED <<queueVars, retryVars, classifyVars, runVars>>

NextEnrich == \E fetched \in FetchOutcomes : EnrichCall(fetched)

SpecEnrich == InitEnrich /\ [][NextEnrich]_vars

\* C30: after enrichVideoMetadata every field that was present is still present, id,
\* title and url are unchanged, and a failed fetch returns the descriptor as it was
\* (the call never rejects).
C30_EnrichmentKeepsPresentFields ==
  /\ callResult.state \in {"idle", "enriched"}
  /\ callResult.state = "enriched" =>
       LET before == callArgs
           after == callResult.video
       IN /\ before.upload_date # Undefined => after.upload_date # Undefined
          /\ before.uploader # Undefined => after.uploader # Undefined
          /\ before.duration # Undefined => after.duration # Undefined
          /\ before.upload_date_raw # Undefined => after.upload_date_raw # Undefined
          /\ after.id = before.id /\ after.title = before.title /\ after.url = before.url
          /\ ~ callResult.fetched.ok => after = before

\* the fetch succeeded without an uploader and the uploader known before was kept
C30_Witness ==
  /\ callResult.state = "enriched"
  /\ callResult.fetched.ok
  /\ callResult.fetched.info.uploader = Undefined
  /\ callResult.fetched.info.duration = Num(0)
  /\ callArgs.uploader = Num(1)
  /\ callArgs.duration = Num(1)
  /\ callResult.video.uploader = Num(1)
  /\ callResult.video.duration = Num(1)

\* ------------------------------------- downloadVideoSubtitle: output naming
\* the number of times the same download is run
MaxNamingRuns == 2

\* the caption files yt-dlp leaves in the temporary directory, '%(title)s.<lang>.<ext>',
\* as their dot-separated parts
TempFiles ==
  { <<"My Video", "en", "vtt">>, <<"My Video", "en", "srt">>,
    <<"My Video", "en-US", "vtt">>, <<"My Video", "fil", "vtt">>,
    <<"Vol", "II", "Intro", "fr", "vtt">> }

\* the parts that match [a-z]{2}(-[a-z]+)? under the i flag
LangLike == {"en", "en-US", "fr", "II"}

\* downloader.js lines 199-200 (and 213-214):
\* basename.match(/\.([a-z]{2}(-[a-z]+)?)\./i): the first part between two dots that
\* looks like a language, with its dot, or ''
LangCode(parts) ==
  LET found == {k \in 2 .. (Len(parts) - 1) : parts[k] \in LangLike}
  IN IF found = {} THEN <<>>
     ELSE <<parts[CHOOSE k \in found : \A j \in found : k <= j]>>

\* what enrichedVideo.x || 'unknown' gives when x is falsy
Unknown == [t |-> "unknown", v |-> 0]

\* a name that carries the upload date enrichment may have filled in
EnrichedUploadDate(enrichedVideo) ==
  IF Truthy(enrichedVideo.upload_date) THEN enrichedVideo.upload_date ELSE Unknown

\* downloader.js line 176: enrichedVideo.upload_date_raw || 'unknown'
UploadDateOf(enrichedVideo) ==
  IF Truthy(enrichedVideo.upload_date_raw) THEN enrichedVideo.upload_date_raw ELSE Unknown

\* downloader.js lines 177, 190-201 and 205-215: the final path of a caption file:
\* outputDir, `${uploadDate}-${id}`, the language part and '.json' or '.txt'
FinalPath(outputDir, enrichedVideo, parts, format) ==
  [dir |-> outputDir, date |-> UploadDateOf(enrichedVideo), id |-> enrichedVideo.id,
   lang |-> LangCode(parts), ext |-> IF format = "json" THEN "json" ELSE "txt"]

\* renameFile(tempOutputPath, finalPath): the file is at finalPath afterwards, in the
\* place of whatever was there
RenameFile(files, finalPath) == files \cup {finalPath}

RECURSIVE RenameAll(_, _)
RenameAll(files, finalPaths) ==
  IF finalPaths = {} THEN files
  ELSE LET p == CHOOSE q \in finalPaths : TRUE
       IN RenameAll(RenameFile(files, p), finalPaths \ {p})

InitNaming ==
  /\ IdleQueue /\ IdleRetry /\ IdleClassify /\ IdleRun
  /\ callArgs \in [video : {d \in Descriptors : d.uploader = Undefined /\ d.duration = Undefined},
                   outputDir : {"out"}, format : {"txt", "json"},
                   subtitleFiles : SUBSET TempFiles \ {{}}]
  /\ callResult = [state |-> "idle", runs |-> 0]
  /\ trackerBefore = NoCall /\ failureLog = <<>> /\ fileSystem = {}

\* downloader.js lines 105-243: one successful run of downloadVideoSubtitle on the
\* video, with what the enrichment fetch came to in this run
DownloadRun(fetched) ==
  /\ callResult.runs < MaxNamingRuns
  \* no fetch is made when upload_date is there (line 110): fetched plays no part then
  /\ Truthy(callArgs.video.upload_date) => ~ fetched.ok
  /\ LET video == callArgs.video
         enrichedVideo == IF ~ Truthy(video.upload_date)
                            THEN EnrichVideoMetadata(video, fetched) ELSE video
         outputFiles == {FinalPath(callArgs.outputDir, enrichedVideo, f, callArgs.format) :
                           f \in callArgs.subtitleFiles}
     IN /\ fileSystem' = RenameAll(fileSystem, outputFiles)
        /\ callResult' = [state |-> "ran", runs |-> callResult.runs + 1,
                          enrichedVideo |-> enrichedVideo, outputFiles |-> outputFiles,
                          filesBefore |-> fileSystem]
  /\ UNCHANGED <<callArgs, trackerBefore, failureLog>>
  /\ UNCHANGED <<queueVars, retryVars, classifyVars, runVars>>

NextNaming ==
  \E fetched \in {o \in FetchOutcomes : o.ok => (o.info.uploader = Undefined
                                                 /\ o.info.duration = Undefined)} :
    DownloadRun(fetched)

SpecNaming == InitNaming /\ [][NextNaming]_vars

SpecRunFair == SpecRun /\ WF_vars(NextRun)

\* C31: with maxRetries a non-negative integer, downloadSubtitles eventually returns
\* with every video at its terminal outcome, and no video is fetched more than
\* maxRetries + 1 times.
C31_RunDrains ==
  JsLeq(Num(0), maxRetries) =>
    /\ <>(runResult.received /\ \A i \in Videos : worker[i].pc = "finished")
    /\ [](\A i \in Videos : worker[i].fetches <= maxRetries.v + 1)

\* C31 with a concurrency the limiter accepts: downloadSubtitles eventually returns,
\* it returns only with every video at its terminal outcome, and no video is fetched
\* more than maxRetries + 1 times.
C31_RunDrainsWithValidConcurrency ==
  (JsLeq(Num(0), maxRetries) /\ ValidConcurrency(concurrency)) =>
    /\ <>(runResult.received /\ \A i \in Videos : worker[i].pc = "finished")
    /\ [](runResult.received => \A i \in Videos : worker[i].pc = "finished")
    /\ [](\A i \in Videos : worker[i].fetches <= maxRetries.v + 1)

\* a run returned in which a video used every attempt it was allowed and failed
C31_Witness ==
  /\ runResult.received
  /\ ValidConcurrency(concurrency)
  /\ JsLeq(Num(1), maxRetries)
  /\ \E i \in Videos :
       /\ worker[i].fetches = maxRetries.v + 1
       /\ worker[i].pc = "finished"
       /\ i \in Indexes(runResult.failed)

\* ------------------------------- index.js: the download action's concurrency
\* constants.js lines 8-9
MAX_CONCURRENCY == 10
MIN_CONCURRENCY == 1

\* Math.max and Math.min: NaN as soon as an argument is NaN
MathMax(a, b) == IF a.t # "num" \/ b.t # "num" THEN NaN ELSE IF a.v >= b.v THEN a ELSE b
MathMin(a, b) == IF a.t # "num" \/ b.t # "num" THEN NaN ELSE IF a.v <= b.v THEN a ELSE b

\* index.js lines 184-187: Math.min(Math.max(parseInt(options.concurrency, 10),
\* CONFIG.MIN_CONCURRENCY), CONFIG.MAX_CONCURRENCY)
ClampConcurrency(arg) ==
  MathMin(MathMax(ParseInt(arg), Num(MIN_CONCURRENCY)), Num(MAX_CONCURRENCY))

\* the --concurrency string the user gave
InitCli ==
  /\ IdleQueue /\ IdleRetry /\ IdleClassify /\ IdleRun
  /\ callArgs \in RetriesArgs
  /\ callResult = [state |-> "idle"]
  /\ trackerBefore = NoCall /\ failureLog = <<>> /\ fileSystem = {}

\* the download action computes the concurrency it hands to downloadSubtitles
ParseConcurrencyOption ==
  /\ callResult.state = "idle"
  /\ callResult' = [state |-> "parsed", concurrency |-> ClampConcurrency(callArgs)]
  /\ UNCHANGED <<callArgs, trackerBefore, failureLog, fileSystem>>
  /\ UNCHANGED <<queueVars, retryVars, classifyVars, runVars>>

SpecCli == InitCli /\ [][ParseConcurrencyOption]_vars

\* C32: whatever string is given to --concurrency, the concurrency passed to
\* downloadSubtitles is an integer from 1 to 10.
C32_ConcurrencyClamped ==
  callResult.state = "parsed" =>
    /\ callResult.concurrency.t = "num"
    /\ callResult.concurrency.v >= 1
    /\ callResult.concurrency.v <= 10

\* C33: with a concurrency that is not >= 1 the queue fails before any work starts: no
\* item is enqueued or started, no worker runs, startVideo is called for no video and
\* no outcome is recorded; the run ends rejected.
C33_BadConcurrencyFailsFast ==
  (runPc \notin {"idle", "init"} /\ ~ (concurrency >= 1)) =>
    /\ pcQ \in {"start", "rejected"}
    /\ queue = <<>> /\ started = <<>> /\ activeCount = 0
    /\ succeeded = <<>> /\ failed = <<>>
    /\ ~ returned.received /\ ~ runResult.received
    /\ \A i \in Videos :
         /\ worker[i] = NewWorker
         /\ trackerCalls[i] = NoCalls
         /\ progress.videoSpinners[i] = "none"
         /\ status[i] = "new" /\ outcome[i] = "none"
    /\ progress.completed = 0
    /\ stats.succeeded = 0 /\ stats.failed = 0 /\ stats.errors = <<>>
    /\ (~ ENABLED NextRun) => (runPc = "rejected" /\ exitCode = 1)

\* a run of two videos was rejected because of its concurrency
C33_Witness ==
  /\ runPc = "rejected"
  /\ pcQ = "rejected"
  /\ nItems = 2
  /\ ~ (concurrency >= 1)

\* the slots are all taken, each by a video whose worker is running or by one that
\* has settled and is about to give its slot back
EverySlotHeld ==
  /\ activeCount = concurrency
  /\ Cardinality({k \in Videos : status[k] \in {"running", "settled"}}) = concurrency

\* C34: while the worker of a video sleeps between two attempts it still holds its
\* slot, the ceiling still holds, it is itself woken by nothing but its timer, and
\* every other admitted worker can take its next step; a video not yet admitted
\* waits for a slot only while every slot is held.
C34_BackoffBlocksNobody ==
  \A i \in Videos :
    worker[i].pc = "sleeping" =>
      /\ status[i] = "running"
      /\ InFlight <= concurrency
      /\ ENABLED BackoffElapsed(i)
      /\ \A j \in Videos \ {i} :
           /\ worker[j].pc = "fetching" =>
                \A o \in AttemptOutcomes : ENABLED AttemptSettles(j, o)
           /\ worker[j].pc = "sleeping" => ENABLED BackoffElapsed(j)
           /\ worker[j].pc = "resolved" => ENABLED WorkerSucceeds(j)
           /\ worker[j].pc = "rejected" => ENABLED WorkerCatches(j)
           /\ worker[j].pc = "logging" => ENABLED WorkerRethrows(j)
           /\ status[j] = "settled" => ENABLED RunReleaseSlot(j)
           /\ worker[j].pc = "notStarted" => (EverySlotHeld \/ pendingChecks > 0)

\* a video is still asleep, holding one of the two slots, while the video admitted
\* with it has been downloaded and the slot it left is not taken
C34_Witness ==
  /\ nItems = 2 /\ concurrency = 2
  /\ worker[0].pc = "sleeping"
  /\ status[0] = "running"
  /\ worker[1].pc = "finished"
  /\ status[1] = "done"
  /\ 1 \in Indexes(succeeded)

\* C35: in every state of a run (each is a point where control can pass to another
\* worker) the tracker and the collector agree on the number of videos succeeded and
\* failed, and on the number of videos seen.
C35_TrackerAndStatsAgree ==
  runPc # "idle" =>
    /\ progress.succeeded = stats.succeeded
    /\ progress.failed = stats.failed
    /\ progress.total = stats.total
    /\ progress.completed = stats.succeeded + stats.failed

\* a video has been downloaded and another has failed and is at its logger await,
\* not yet settled for the queue
C35_Witness ==
  /\ nItems = 2
  /\ worker[0].pc = "finished"
  /\ worker[1].pc = "logging"
  /\ status[1] = "running"
  /\ progress.succeeded = 1 /\ stats.succeeded = 1
  /\ progress.failed = 1 /\ stats.failed = 1

\* ------------------------- downloadVideoSubtitle: the temporary directory
\* the videos downloaded side by side and the attempts each may make
MaxTempVideos == 2
MaxTempAttempts == 2

TempVideos == 0 .. (MaxTempVideos - 1)

\* downloader.js line 118: path.join(outputDir, '.temp', sanitizeFilename(title)):
\* the directory is named after the sanitized title alone
TempVideoDir(i) == callArgs[i]

\* a caption file in a temporary directory, with the fetch that wrote it
CaptionFile(i) == [dir |-> TempVideoDir(i), video |-> i, attempt |-> worker[i].attempt]

\* glob of `${directory}/**/*.vtt` and *.srt (findSubtitleFiles): all that is there
FilesIn(dir) == {f \in fileSystem : f.dir = dir}

InitTemp ==
  /\ IdleQueue /\ IdleRetry /\ IdleClassify
  /\ runPc = "idle" /\ progress = <<>> /\ trackerCalls = <<>> /\ stats = <<>>
  /\ runResult = [received |-> FALSE] /\ exitCode = -1
  /\ callArgs \in [TempVideos -> {"Episode 1", "Episode 2"}]
  /\ worker = [i \in TempVideos |-> [pc |-> "queued", attempt |-> 0, wrote |-> {},
                                    located |-> {}]]
  /\ fileSystem = {}
  /\ callResult = [state |-> "idle"] /\ trackerBefore = NoCall /\ failureLog = <<>>

TempFrame ==
  /\ UNCHANGED <<runPc, progress, trackerCalls, stats, runResult, exitCode>>
  /\ UNCHANGED <<callArgs, callResult, trackerBefore, failureLog>>
  /\ UNCHANGED <<queueVars, retryVars, classifyVars>>

\* withRetry around an attempt that threw a retryable error: the next attempt, or the
\* failure of the video; nothing is removed from the temporary directory (the catch
\* block, lines 243-258, only wraps the error)
AfterFailedAttempt(w) ==
  IF w.attempt < MaxTempAttempts
    THEN [w EXCEPT !.pc = "fetching", !.attempt = @ + 1, !.wrote = {}, !.located = {}]
    ELSE [w EXCEPT !.pc = "failed"]

\* lines 105-119, 157: the worker is admitted; ensureDir, then yt-dlp is started
TempBegin(i) ==
  /\ worker[i].pc = "queued"
  /\ worker' = [worker EXCEPT ![i].pc = "fetching", ![i].attempt = 1]
  /\ UNCHANGED fileSystem
  /\ TempFrame

\* line 157: executeYtDlp settles: it wrote n caption files of the video into the
\* directory (over the file of the same name it wrote before) and resolved, or it
\* rejected
TempFetchSettles(i, n, resolved) ==
  /\ worker[i].pc = "fetching"
  /\ IF resolved
       THEN LET written == IF n = 0 THEN {} ELSE {CaptionFile(i)}
            IN /\ fileSystem' = IF n = 0 THEN fileSystem
                                ELSE {f \in fileSystem : ~ (f.dir = TempVideoDir(i) /\ f.video = i)}
                                     \cup written
               /\ worker' = [worker EXCEPT ![i].pc = "finding", ![i].wrote = written]
       ELSE /\ n = 0
            /\ worker' = [worker EXCEPT ![i] = AfterFailedAttempt(@)]
            /\ UNCHANGED fileSystem
  /\ TempFrame

\* lines 160-168: findSubtitleFiles(tempVideoDir); no file is the non-retryable
\* 'No subtitles available' failure
TempFindFiles(i) ==
  /\ worker[i].pc = "finding"
  /\ worker' = [worker EXCEPT
       ![i].located = FilesIn(TempVideoDir(i)),
       ![i].pc = IF FilesIn(TempVideoDir(i)) = {} THEN "failed" ELSE "converting"]
  /\ UNCHANGED fileSystem
  /\ TempFrame

\* lines 189-221: the located files are converted and moved; a file that is no
\* longer there, or any other error of the conversion, fails the attempt
TempConvertSettles(i, converted) ==
  /\ worker[i].pc = "converting"
  /\ converted => worker[i].located \subseteq fileSystem
  /\ worker' = [worker EXCEPT ![i] =
       IF converted THEN [@ EXCEPT !.pc = "cleaning"] ELSE AfterFailedAttempt(@)]
  /\ UNCHANGED fileSystem
  /\ TempFrame

\* lines 224-241: fs.rm(tempVideoDir, {recursive: true, force: true}), then the
\* result with filesCount: subtitleFiles.length is returned
TempCleanup(i) ==
  /\ worker[i].pc = "cleaning"
  /\ fileSystem' = fileSystem \ FilesIn(TempVideoDir(i))
  /\ worker' = [worker EXCEPT ![i].pc = "succeeded"]
  /\ TempFrame

NextTemp ==
  \/ \E i \in TempVideos : TempBegin(i)
  \/ \E i \in TempVideos : \E n \in 0 .. 1 : \E resolved \in BOOLEAN :
       TempFetchSettles(i, n, resolved)
  \/ \E i \in TempVideos : TempFindFiles(i)
  \/ \E i \in TempVideos : \E converted \in BOOLEAN : TempConvertSettles(i, converted)
  \/ \E i \in TempVideos : TempCleanup(i)

SpecTemp == InitTemp /\ [][NextTemp]_vars

\* C36: a worker locates only caption files fetched for its own video, and the files
\* a worker in flight has fetched or located are not removed by another worker.
C36_WorkingFilesIsolated ==
  \A i \in TempVideos :
    /\ \A f \in worker[i].located : f.video = i
    /\ worker[i].pc \in {"finding", "converting"} => worker[i].wrote \subseteq fileSystem

\* C37: with a directory of its own for each video, a video reported as downloaded
\* located exactly the files its last fetch wrote, and that fetch wrote at least one.
C37_LocatedFilesAreFresh ==
  (\A i, j \in TempVideos : i # j => TempVideoDir(i) # TempVideoDir(j)) =>
    \A i \in TempVideos :
      worker[i].pc \in {"cleaning", "succeeded"} =>
        /\ worker[i].wrote # {}
        /\ worker[i].located = worker[i].wrote

\* C38: in every state of a run the tracker has completed = succeeded + failed and
\* completed <= total, and the videos shown as processing are no more than the
\* concurrency ceiling.
C38_TrackerCountersBounded ==
  runPc \notin {"idle", "init"} =>
    /\ progress.completed = progress.succeeded + progress.failed
    /\ progress.completed <= progress.total
    /\ Cardinality({i \in Videos : progress.videoSpinners[i] = "processing"}) <= concurrency

\* C39: the entries of the two buckets carry the input indexes: together they are
\* exactly 0..items.length-1, none twice and none in both; an entry is pushed at the
\* end of its bucket at the moment its worker settles, so a bucket is in completion
\* order.
C39_BucketsCarryIndexes ==
  /\ [](returned.received =>
          /\ Indexes(returned.succeeded) \cup Indexes(returned.failed) = ItemIndexes
          /\ Indexes(returned.succeeded) \cap Indexes(returned.failed) = {}
          /\ Len(returned.succeeded) + Len(returned.failed) = nItems)
  /\ [][ /\ \A i \in ItemIndexes :
              (status[i] = "running" /\ status'[i] = "settled") =>
                IF outcome'[i] = "resolved"
                  THEN succeeded' = Append(succeeded, [index |-> i]) /\ failed' = failed
                  ELSE failed' = Append(failed, [index |-> i]) /\ succeeded' = succeeded
         /\ (\A i \in ItemIndexes : ~ (status[i] = "running" /\ status'[i] = "settled")) =>
              (succeeded' = succeeded /\ failed' = failed) ]_vars

\* three items were returned; the item submitted last resolved before the one
\* submitted first, and stands before it in the succeeded bucket
C39_Witness ==
  /\ returned.received
  /\ nItems = 3
  /\ Len(returned.succeeded) = 2
  /\ returned.succeeded[1].index = 2
  /\ returned.succeeded[2].index = 0
  /\ Indexes(returned.failed) = {1}

\* complete() has stopped the main spinner
TrackerCompleted ==
  progress.mainSpinner.on /\ "ended" \in DOMAIN progress.mainSpinner

\* C40: a run that has come to its end has called progress.complete() and
\* stats.end(), both after every video reached its terminal outcome.
C40_CompletedInEveryRun ==
  /\ (runPc \notin {"idle", "init"} /\ ~ ENABLED NextRun) => (stats.ended /\ TrackerCompleted)
  /\ stats.ended => \A i \in Videos : worker[i].pc = "finished"

\* C40 for the runs that return: complete() and end() are both called in the step
\* that follows the return of processQueue, when every video is at its terminal
\* outcome, and in no other step; afterwards the tracker and the collector do not
\* change any more and the statistics returned are those of the collector. A run
\* rejected for its concurrency calls neither.
C40_CompletedOnceAtTheEnd ==
  /\ [](stats.ended <=> TrackerCompleted)
  /\ [](stats.ended <=> runPc \in {"returned", "exited"})
  /\ [](stats.ended =>
          /\ \A i \in Videos : worker[i].pc = "finished" /\ status[i] \in {"settled", "done"}
          /\ runResult.received
          /\ runResult.stats = GetStats(stats))
  /\ []((runPc \notin {"idle", "init"} /\ ~ ENABLED NextRun) =>
          (stats.ended <=> runPc = "exited") /\ (~ stats.ended <=> runPc = "rejected"))
  /\ [][ /\ (~ stats.ended /\ stats'.ended) => (runPc = "queue" /\ pcQ = "returned")
         /\ stats.ended =>
              (stats'.ended /\ UNCHANGED <<progress, stats, trackerCalls, runResult>>) ]_vars

\* the process exited after a run of two videos, one of which failed: the main
\* spinner ended with the warning and the collector was ended
C40_Witness ==
  /\ runPc = "exited"
  /\ nItems = 2
  /\ stats.ended
  /\ progress.mainSpinner.ended = "warn"
  /\ progress.mainSpinner.failed = 1
  /\ runResult.stats.failed = 1

====
